---- MODULE Spec2Model ----
(***************************************************************************)
(* Model of the Quran question-answering backend:                          *)
(*   - QuranLLMExplainer.explain            (src/llm_explainer.py)         *)
(*   - QuranRetrieval.search and friends    (src/quran_retrieval2.py)      *)
(*   - QuranService.answer_query            (backend/app/services)         *)
(*   - CacheService                         (backend/app/services)         *)
(*   - the query endpoints                  (backend/app/routers)          *)
(* Python values are modelled as follows: None is the string "None",       *)
(* a dict is a record/function on string keys, a list is a sequence, and   *)
(* a str is a TLA+ string.  Similarity scores are integers (tenths).       *)
(***************************************************************************)
EXTENDS Integers, Sequences, FiniteSets, TLC

VARIABLES
    call,          \* last direct call of a library function and its result
    redis_client,  \* CacheService.redis_client: "client" or None
    store,         \* contents of the cache server under the quran_query: namespace
    history,       \* the query_history table, in insertion order
    api_key,       \* settings.OPENAI_API_KEY configured?
    explainer,     \* QuranService._explainer: None or "explainer"
    engine,        \* QuranService._retrieval and its lazily loaded resources
    files,         \* which artifact files exist on disk
    counts,        \* number of retrievals / language-model calls / builds so far
    first,         \* for each cache key, the body of the miss-path response that filled it
    last           \* the last event: an HTTP request and its response, or an expiry

vars == <<call, redis_client, store, history, api_key, explainer, engine,
          files, counts, first, last>>

None == "None"

\* An Optional[float]: the empty tuple is None, <<x>> is the number x
NoFloat == <<>>
Some(x) == <<x>>

(***************************************************************************)
(* Bounds of the model.                                                    *)
(***************************************************************************)
MaxK == 5            \* largest k a direct search call is tried with
MaxScore == 3        \* similarity scores range over 0..MaxScore
MaxRequests == 2     \* number of submit-query requests in one run
MaxSkip == 1         \* largest skip a history request is tried with
MaxLimit == 2        \* largest limit a history request is tried with

(***************************************************************************)
(* Small helpers for Python dict / list idioms.                            *)
(***************************************************************************)
Get(d, key, default) == IF key \in DOMAIN d THEN d[key] ELSE default

RECURSIVE Join(_)
Join(s) == IF s = <<>> THEN "" ELSE Head(s) \o Join(Tail(s))

Range(s) == {s[i] : i \in DOMAIN s}

\* a local assignment  v = e  followed by the code F that uses v: e is
\* evaluated once, as an assignment statement does
Bind(e, F(_)) == CHOOSE y \in {F(v) : v \in {e}} : TRUE

(***************************************************************************)
(* The corpus after _load_quran_data / _save_metadata: one record per      *)
(* verse, in corpus order.  Position i (Python index i-1) of the metadata  *)
(* list is verse i.                                                        *)
(***************************************************************************)
Verse(s, name, total, a) ==
    [surah_number |-> s, surah_name_english |-> name, total_ayahs |-> total,
     ayah_number |-> a, text_simple |-> "t", translation_en_yusufali |-> "e"]

Metadata ==
    << Verse(1, "Opening", 3, 1), Verse(1, "Opening", 3, 2), Verse(1, "Opening", 3, 3),
       Verse(2, "Cow", 2, 1) >>


(***************************************************************************)
(* str.strip() and str.replace() on a text given as a sequence of          *)
(* one-character strings.                                                  *)
(***************************************************************************)
Whitespace == {" ", "\n", "\t"}

RECURSIVE lstrip(_)
lstrip(s) == IF s # <<>> /\ Head(s) \in Whitespace THEN lstrip(Tail(s)) ELSE s

RECURSIVE rstrip(_)
rstrip(s) ==
    IF s # <<>> /\ s[Len(s)] \in Whitespace THEN rstrip(SubSeq(s, 1, Len(s) - 1)) ELSE s

strip(s) == rstrip(lstrip(s))

\* s.replace("**", ""): non-overlapping occurrences, scanned left to right
RECURSIVE replace_2stars(_)
replace_2stars(s) ==
    IF Len(s) >= 2 /\ s[1] = "*" /\ s[2] = "*" THEN replace_2stars(SubSeq(s, 3, Len(s)))
    ELSE IF s = <<>> THEN <<>>
    ELSE <<Head(s)>> \o replace_2stars(Tail(s))

\* s.replace("*", "")
replace_star(s) == SelectSeq(s, LAMBDA c : c # "*")

(***************************************************************************)
(* QuranLLMExplainer.explain.  llm is what the outbound chat-completion    *)
(* call does when (and if) it is made:                                     *)
(*   ok          it returns a response whose first choice has the content  *)
(*   raise       client.chat.completions.create raises                     *)
(*   no_choices  the response has an empty choices list (IndexError)       *)
(*   no_content  the message content is None (AttributeError on .strip)    *)
(* The result records the returned string and the number of calls made to  *)
(* the language-model client.                                              *)
(***************************************************************************)
FALLBACK == "The Qur'an does not explicitly address this question."

ERROR_PREFIX == "Error generating explanation: "

\* the body of the try block: the outbound call and the reading of its response
llm_try(llm) ==
    CASE llm.kind = "ok" ->
            [exc |-> None, value |-> Join(replace_star(replace_2stars(strip(llm.content))))]
      [] llm.kind = "raise" -> [exc |-> llm.text, value |-> None]
      [] llm.kind = "no_choices" -> [exc |-> "list index out of range", value |-> None]
      [] llm.kind = "no_content" ->
            [exc |-> "'NoneType' object has no attribute 'strip'", value |-> None]

ResultsTruthy(citation_bundle) ==
    IF "results" \in DOMAIN citation_bundle THEN Len(citation_bundle.results) > 0 ELSE FALSE

\* explain with the gate testing only has_answer
explain_flag_only(citation_bundle, llm) ==
    IF ~Get(citation_bundle, "has_answer", FALSE)
    THEN [ret |-> FALLBACK, llm_calls |-> 0, raised |-> None]
    ELSE Bind(llm_try(llm), LAMBDA t :
         IF t.exc # None
         THEN [ret |-> ERROR_PREFIX \o t.exc, llm_calls |-> 1, raised |-> None]
         ELSE [ret |-> t.value, llm_calls |-> 1, raised |-> None])

\* explain without the except clause: a failure of the call propagates
explain_propagating(citation_bundle, llm) ==
    IF ~Get(citation_bundle, "has_answer", FALSE) \/ ~ResultsTruthy(citation_bundle)
    THEN [ret |-> FALLBACK, llm_calls |-> 0, raised |-> None]
    ELSE Bind(llm_try(llm), LAMBDA t :
         IF t.exc # None
         THEN [ret |-> None, llm_calls |-> 1, raised |-> t.exc]
         ELSE [ret |-> t.value, llm_calls |-> 1, raised |-> None])

\* explain making the outbound call a second time when the first one failed
explain_retrying(citation_bundle, llm) ==
    IF ~Get(citation_bundle, "has_answer", FALSE) \/ ~ResultsTruthy(citation_bundle)
    THEN [ret |-> FALLBACK, llm_calls |-> 0, raised |-> None]
    ELSE Bind(llm_try(llm), LAMBDA t :
         IF t.exc # None
         THEN Bind(llm_try(llm), LAMBDA t2 :
              IF t2.exc # None
              THEN [ret |-> ERROR_PREFIX \o t2.exc, llm_calls |-> 2, raised |-> None]
              ELSE [ret |-> t2.value, llm_calls |-> 2, raised |-> None])
         ELSE [ret |-> t.value, llm_calls |-> 1, raised |-> None])

explain(citation_bundle, llm) ==
    IF ~Get(citation_bundle, "has_answer", FALSE) \/ ~ResultsTruthy(citation_bundle)
    THEN [ret |-> FALLBACK, llm_calls |-> 0, raised |-> None]
    ELSE Bind(llm_try(llm), LAMBDA t :
         IF t.exc # None
         THEN [ret |-> ERROR_PREFIX \o t.exc, llm_calls |-> 1, raised |-> None]
         ELSE [ret |-> t.value, llm_calls |-> 1, raised |-> None])

LLMContents ==
    { <<"o", "k">>,
      <<" ", "*", "*", "o", "k", "*", "*", "\n">>,
      <<"(", "O", ",", "1", ")">>,
      <<"*", "n", "o", "*">> }

LLMOutcomes ==
    {[kind |-> "ok", content |-> c] : c \in LLMContents}
    \cup {[kind |-> "raise", text |-> t] : t \in {"Connection error.", "Rate limit reached"}}
    \cup {[kind |-> "no_choices"], [kind |-> "no_content"]}


(***************************************************************************)
(* The vector index.  index.search(q, k) returns exactly k (score, idx)    *)
(* pairs: the min(k, ntotal) nearest vectors by descending score, then     *)
(* padding entries with idx = -1.  idx is the 0-based Python position.     *)
(***************************************************************************)
Scores == 0..MaxScore

Injective(f) == \A i, j \in DOMAIN f : f[i] = f[j] => i = j

NonIncreasing(f) == \A i, j \in DOMAIN f : i <= j => f[i] >= f[j]

IndexSearch(ntotal, k) ==
    LET m == IF k < ntotal THEN k ELSE ntotal IN
    { [i \in 1..k |-> IF i <= m THEN [score |-> sc[i], idx |-> ix[i]]
                                 ELSE [score |-> -1, idx |-> -1]] :
        ix \in {f \in [1..m -> 0..(ntotal - 1)] : Injective(f)},
        sc \in {f \in [1..m -> Scores] : NonIncreasing(f)} }

(***************************************************************************)
(* QuranRetrieval.search after the blank-query test and the lazy loads:    *)
(* hits is what index.search returned, metadata the loaded metadata list.  *)
(***************************************************************************)
IsBlank(query) == query = <<>> \/ strip(query) = <<>>

format_hits(hits, metadata) ==
    Bind(SelectSeq(hits, LAMBDA h : 0 <= h.idx /\ h.idx < Len(metadata)), LAMBDA valid :
    [i \in 1..Len(valid) |-> metadata[valid[i].idx + 1] @@ [score |-> valid[i].score]])

\* search with a strict comparison against the threshold
search_hits_strict(hits, metadata, score_threshold, return_no_answer) ==
    Bind(format_hits(hits, metadata), LAMBDA results :
    IF score_threshold # NoFloat
    THEN Bind(SelectSeq(results, LAMBDA r : r.score > score_threshold[1]),
              LAMBDA filtered_results :
         IF Len(filtered_results) >= 1 THEN filtered_results
         ELSE IF return_no_answer THEN <<>> ELSE results)
    ELSE results)

search_hits(hits, metadata, score_threshold, return_no_answer) ==
    Bind(format_hits(hits, metadata), LAMBDA results :
    IF score_threshold # NoFloat
    THEN Bind(SelectSeq(results, LAMBDA r : r.score >= score_threshold[1]),
              LAMBDA filtered_results :
         IF Len(filtered_results) >= 1 THEN filtered_results
         ELSE IF return_no_answer THEN <<>> ELSE results)
    ELSE results)

(***************************************************************************)
(* QuranRetrieval: lazily loaded resources and the artifact files.         *)
(* A retrieval state r is a record                                         *)
(*   engine  [constructed, model, index, metadata]: the in-memory fields   *)
(*           (_model loaded?, _index and _metadata: None or the version of *)
(*           the file they were read from)                                 *)
(*   files   [json, index, metadata, texts]: json is whether the corpus    *)
(*           file can be found, the others None or the version on disk     *)
(*           ("old": left by an earlier process, "new": built by this one) *)
(*   builds  number of build_index runs that wrote the artifacts           *)
(*   exc     None or the text of the exception being raised                *)
(***************************************************************************)
JSON_NOT_FOUND == "Quran JSON file not found"

_load_model(r) == [r EXCEPT !.engine.model = TRUE]

build_index(r) ==
    IF ~r.files.json
    THEN [r EXCEPT !.exc = JSON_NOT_FOUND]
    ELSE [r EXCEPT !.engine.model = TRUE,
                   !.files.index = "new", !.files.metadata = "new", !.files.texts = "new",
                   !.engine.index = None, !.engine.metadata = None,
                   !.builds = @ + 1]

_load_index(r) ==
    IF r.engine.index # None THEN r
    ELSE Bind(IF r.files.index = None THEN build_index(r) ELSE r, LAMBDA r1 :
         IF r1.exc # None THEN r1 ELSE [r1 EXCEPT !.engine.index = r1.files.index])

\* _load_metadata opening the file without building it when it is absent
_load_metadata_no_build(r) ==
    IF r.engine.metadata # None THEN r
    ELSE IF r.files.metadata = None THEN [r EXCEPT !.exc = "No such file or directory"]
    ELSE [r EXCEPT !.engine.metadata = r.files.metadata]

_load_metadata(r) ==
    IF r.engine.metadata # None THEN r
    ELSE Bind(IF r.files.metadata = None THEN build_index(r) ELSE r, LAMBDA r1 :
         IF r1.exc # None THEN r1 ELSE [r1 EXCEPT !.engine.metadata = r1.files.metadata])

\* the content of a metadata file and the size of an index file, by version
MetadataOf(version) == Metadata

NtotalOf(version) == Len(Metadata)

\* index.search for the queries of the model: the embedding model is a fixed
\* function, so a query always gets the same ranking from the same index
Ranking(query) ==
    IF query = <<"f">>
    THEN << [score |-> 3, idx |-> 1], [score |-> 2, idx |-> 0],
            [score |-> 1, idx |-> 2], [score |-> 0, idx |-> 3] >>
    ELSE << [score |-> 1, idx |-> 3], [score |-> 1, idx |-> 2],
            [score |-> 0, idx |-> 0], [score |-> 0, idx |-> 1] >>

index_search(version, query, k) ==
    [i \in 1..k |-> IF i <= NtotalOf(version) THEN Ranking(query)[i]
                                              ELSE [score |-> -1, idx |-> -1]]

\* search loading its resources before it tests the query
search_load_first(r, query, k, score_threshold, return_no_answer) ==
    Bind(_load_index(_load_model(r)), LAMBDA r2 :
    Bind(IF r2.exc # None THEN r2 ELSE _load_metadata(r2), LAMBDA r3 :
        IF r3.exc # None \/ IsBlank(query) THEN [r |-> r3, ret |-> <<>>]
        ELSE [r |-> r3,
              ret |-> search_hits(index_search(r2.engine.index, query, k),
                                  MetadataOf(r3.engine.metadata),
                                  score_threshold, return_no_answer)]))

\* search: r is the state before the call; the result carries the state after
\* it and the returned list (ret) or the raised exception (r.exc)
search(r, query, k, score_threshold, return_no_answer) ==
    IF IsBlank(query) THEN [r |-> r, ret |-> <<>>]
    ELSE Bind(_load_index(_load_model(r)), LAMBDA r2 :
         Bind(IF r2.exc # None THEN r2 ELSE _load_metadata(r2), LAMBDA r3 :
             IF r3.exc # None THEN [r |-> r3, ret |-> <<>>]
             ELSE [r |-> r3,
                   ret |-> search_hits(index_search(r2.engine.index, query, k),
                                       MetadataOf(r3.engine.metadata),
                                       score_threshold, return_no_answer)]))

(***************************************************************************)
(* add_context_window, search_with_context, retrieve_citation_bundle.      *)
(***************************************************************************)
Max2(a, b) == IF a >= b THEN a ELSE b

Min2(a, b) == IF a <= b THEN a ELSE b

MaxOf(S) == CHOOSE x \in S : \A y \in S : y <= x

\* list.sort(key = ayah_number): a stable insertion sort
RECURSIVE InsertByAyah(_, _)
InsertByAyah(x, sorted) ==
    IF sorted = <<>> THEN <<x>>
    ELSE IF x.ayah_number < Head(sorted).ayah_number THEN <<x>> \o sorted
    ELSE <<Head(sorted)>> \o InsertByAyah(x, Tail(sorted))

RECURSIVE SortByAyah(_)
SortByAyah(s) ==
    IF s = <<>> THEN <<>>
    ELSE InsertByAyah(s[Len(s)], SortByAyah(SubSeq(s, 1, Len(s) - 1)))

ContextFields ==
    {"surah_number", "surah_name_english", "ayah_number", "text_simple",
     "translation_en_yusufali"}

add_context_window(metadata, result, window) ==
    Bind(result.surah_number, LAMBDA surah_number :
    Bind(result.ayah_number, LAMBDA ayah_number :
    Bind(SelectSeq(metadata, LAMBDA v : v.surah_number = surah_number), LAMBDA surah_ayahs :
    Bind(Max2(1, ayah_number - window), LAMBDA min_ayah :
    Bind(Min2(IF surah_ayahs # <<>>
              THEN MaxOf({v.ayah_number : v \in Range(surah_ayahs)})
              ELSE ayah_number,
              ayah_number + window), LAMBDA max_ayah :
    Bind(SelectSeq(surah_ayahs,
                   LAMBDA v : /\ min_ayah <= v.ayah_number
                              /\ v.ayah_number <= max_ayah
                              /\ v.ayah_number # ayah_number), LAMBDA picked :
    Bind(SortByAyah([i \in 1..Len(picked) |-> [f \in ContextFields |-> picked[i][f]]]),
         LAMBDA context :
    [context |-> context] @@ result)))))))

search_with_context(r, query, k, score_threshold, window) ==
    Bind(search(r, query, k, score_threshold, TRUE), LAMBDA s :
    IF s.r.exc # None THEN s
    ELSE [r |-> s.r,
          ret |-> [i \in 1..Len(s.ret) |->
                     add_context_window(MetadataOf(s.r.engine.metadata), s.ret[i], window)]])

CitationFields == ContextFields \cup {"score", "context"}

\* retrieve_citation_bundle taking the flag from the hits found before filtering
retrieve_citation_bundle_unfiltered_flag(r, query, k, score_threshold, window) ==
    Bind(search_with_context(r, query, k, score_threshold, window), LAMBDA s :
    IF s.r.exc # None THEN s
    ELSE Bind([i \in 1..Len(s.ret) |-> [f \in CitationFields |-> s.ret[i][f]]],
              LAMBDA serializable_results :
              [r |-> s.r,
               ret |-> [query |-> query, k |-> k, score_threshold |-> score_threshold,
                        has_answer |-> Len(search(r, query, k, NoFloat, TRUE).ret) > 0,
                        results |-> serializable_results]]))

retrieve_citation_bundle(r, query, k, score_threshold, window) ==
    Bind(search_with_context(r, query, k, score_threshold, window), LAMBDA s :
    IF s.r.exc # None THEN s
    ELSE Bind([i \in 1..Len(s.ret) |-> [f \in CitationFields |-> s.ret[i][f]]],
              LAMBDA serializable_results :
              [r |-> s.r,
               ret |-> [query |-> query, k |-> k, score_threshold |-> score_threshold,
                        has_answer |-> Len(serializable_results) > 0,
                        results |-> serializable_results]]))

(***************************************************************************)
(* QuranService: the lazily constructed retrieval engine and explainer,    *)
(* and answer_query.  The retrieval state r also carries                   *)
(*   explainer   QuranService._explainer: None or "explainer"              *)
(* key_set is whether settings.OPENAI_API_KEY is non-empty, llm what the   *)
(* outbound call does if it is made, elapsed the measured processing time. *)
(***************************************************************************)
NO_API_KEY == "OPENAI_API_KEY not configured"

\* QuranRetrieval.__init__: a new engine has nothing loaded
QuranRetrieval ==
    [constructed |-> TRUE, model |-> FALSE, index |-> None, metadata |-> None]

\* the retrieval property constructing a new engine at every access
QuranService_retrieval_always_new(r) == [r EXCEPT !.engine = QuranRetrieval]

QuranService_retrieval(r) ==
    IF ~r.engine.constructed THEN [r EXCEPT !.engine = QuranRetrieval] ELSE r

\* the explainer property keeping the instance it built before testing the key
QuranService_explainer_kept(r, key_set) ==
    IF r.explainer = None
    THEN IF ~key_set THEN [r EXCEPT !.explainer = "explainer", !.exc = NO_API_KEY]
         ELSE [r EXCEPT !.explainer = "explainer"]
    ELSE r

QuranService_explainer(r, key_set) ==
    IF r.explainer = None
    THEN IF ~key_set THEN [r EXCEPT !.exc = NO_API_KEY]
         ELSE [r EXCEPT !.explainer = "explainer"]
    ELSE r

\* answer_query getting the explainer only when the bundle has an answer
answer_query_explainer_when_needed(r, key_set, query, k, score_threshold, window, llm, elapsed) ==
    Bind(retrieve_citation_bundle(QuranService_retrieval(r), query, k,
                                  score_threshold, window), LAMBDA b :
    Bind(IF b.r.exc # None \/ ~b.ret.has_answer THEN b.r
         ELSE QuranService_explainer(b.r, key_set), LAMBDA r2 :
        IF r2.exc # None
        THEN [r |-> r2, retrievals |-> 1, llm_calls |-> 0, ret |-> <<>>]
        ELSE Bind(explain(b.ret, llm), LAMBDA e :
             [r |-> r2, retrievals |-> 1, llm_calls |-> e.llm_calls,
              ret |-> [query |-> query, answer |-> e.ret,
                       citations |-> Get(b.ret, "results", <<>>),
                       has_answer |-> Get(b.ret, "has_answer", FALSE),
                       processing_time |-> elapsed]])))

answer_query(r, key_set, query, k, score_threshold, window, llm, elapsed) ==
    Bind(retrieve_citation_bundle(QuranService_retrieval(r), query, k,
                                  score_threshold, window), LAMBDA b :
    Bind(IF b.r.exc # None THEN b.r ELSE QuranService_explainer(b.r, key_set), LAMBDA r2 :
        IF r2.exc # None
        THEN [r |-> r2, retrievals |-> 1, llm_calls |-> 0, ret |-> <<>>]
        ELSE Bind(explain(b.ret, llm), LAMBDA e :
             [r |-> r2, retrievals |-> 1, llm_calls |-> e.llm_calls,
              ret |-> [query |-> query, answer |-> e.ret,
                       citations |-> Get(b.ret, "results", <<>>),
                       has_answer |-> Get(b.ret, "has_answer", FALSE),
                       processing_time |-> elapsed]])))

(***************************************************************************)
(* CacheService.  The store maps a cache key to the serialized value kept  *)
(* under it.  A serialized value is [json |-> v] when it decodes to v.     *)
(***************************************************************************)
FloatStr(x) == IF x = NoFloat THEN "None" ELSE "0." \o ToString(x[1])

\* hashlib.md5(...).hexdigest(), the digest taken as collision-free
md5(key_string) == "md5(" \o key_string \o ")"

\* the key derived without the threshold
_generate_cache_key_no_threshold(query, k, score_threshold, window) ==
    md5(Join(query) \o ":" \o ToString(k) \o ":" \o ToString(window))

_generate_cache_key(query, k, score_threshold, window) ==
    md5(Join(query) \o ":" \o ToString(k) \o ":" \o FloatStr(score_threshold)
        \o ":" \o ToString(window))

CacheKey(query, k, score_threshold, window) ==
    "quran_query:" \o _generate_cache_key(query, k, score_threshold, window)

json_dumps(v) == [json |-> v]

\* what redis_client.get returns for the key: None (<<>>) or <<serialized value>>.
\*   ok            the value the store holds under the key, if any
\*   undecodable   a value that is not JSON
\*   missing_field a JSON object without the answer field
RedisGet(store_, cache_key, outcome) ==
    CASE outcome = "ok" ->
            IF cache_key \in DOMAIN store_ THEN <<store_[cache_key]>> ELSE <<>>
      [] outcome = "undecodable" -> <<[garbage |-> "x"]>>
      [] outcome = "missing_field" ->
            <<json_dumps([query |-> <<"f">>, citations |-> <<>>, has_answer |-> FALSE])>>

\* CacheService.get looking the entry up without the quran_query: namespace
CacheService_get_unprefixed(client, store_, query, k, score_threshold, window, outcome) ==
    IF client = None THEN <<>>
    ELSE IF outcome = "raise" THEN <<>>
    ELSE Bind(RedisGet(store_, _generate_cache_key(query, k, score_threshold, window),
                       outcome), LAMBDA cached :
             IF cached = <<>> THEN <<>>
             ELSE IF "json" \in DOMAIN cached[1] THEN <<cached[1].json>>
             ELSE <<>>)

\* CacheService.get: None (<<>>) or <<the decoded value>>
CacheService_get(client, store_, query, k, score_threshold, window, outcome) ==
    IF client = None THEN <<>>
    ELSE IF outcome = "raise" THEN <<>>
    ELSE Bind(RedisGet(store_, CacheKey(query, k, score_threshold, window), outcome),
              LAMBDA cached :
             IF cached = <<>> THEN <<>>
             ELSE IF "json" \in DOMAIN cached[1] THEN <<cached[1].json>>
             ELSE <<>>)

\* CacheService.set skipping results without an answer
CacheService_set_answers_only(client, store_, query, k, score_threshold, window, result, outcome) ==
    IF client = None THEN store_
    ELSE IF outcome = "raise" \/ ~result.has_answer THEN store_
    ELSE Bind(CacheKey(query, k, score_threshold, window), LAMBDA cache_key :
         [x \in DOMAIN store_ \cup {cache_key} |->
             IF x = cache_key THEN json_dumps(result) ELSE store_[x]])

\* CacheService.set leaving out a result whose answer reports a failed call
CacheService_set_skip_errors(client, store_, query, k, score_threshold, window, result, outcome) ==
    IF client = None THEN store_
    ELSE IF outcome = "raise" THEN store_
    ELSE IF result.answer \in {ERROR_PREFIX \o "Connection error.",
                               ERROR_PREFIX \o "Rate limit reached"} THEN store_
    ELSE Bind(CacheKey(query, k, score_threshold, window), LAMBDA cache_key :
         [x \in DOMAIN store_ \cup {cache_key} |->
             IF x = cache_key THEN json_dumps(result) ELSE store_[x]])

\* CacheService.set: the store after the call
CacheService_set(client, store_, query, k, score_threshold, window, result, outcome) ==
    IF client = None THEN store_
    ELSE IF outcome = "raise" THEN store_
    ELSE Bind(CacheKey(query, k, score_threshold, window), LAMBDA cache_key :
         [x \in DOMAIN store_ \cup {cache_key} |->
             IF x = cache_key THEN json_dumps(result) ELSE store_[x]])

(***************************************************************************)
(* The query endpoints.  A response is [status, body, detail, rows].       *)
(* An exception that escapes a handler is answered by the framework with   *)
(* a bare 500 "Internal Server Error".                                     *)
(***************************************************************************)
NoUser == 0     \* current_user is None; the ids of users are positive

Response200(body) == [status |-> 200, body |-> body, detail |-> None, rows |-> <<>>]

HTTPException(status_code, detail) ==
    [status |-> status_code, body |-> <<>>, detail |-> detail, rows |-> <<>>]

Unhandled == [status |-> 500, body |-> <<>>, detail |-> "Internal Server Error", rows |-> <<>>]

\* [VerseCitation(**c) for c in citations]: every required field must be present
VerseCitationRequired == ContextFields \cup {"score"}

VerseCitation(c) == [f \in CitationFields |-> IF f \in DOMAIN c THEN c[f] ELSE None]

ValidCitations(cs) == \A i \in 1..Len(cs) : VerseCitationRequired \subseteq DOMAIN cs[i]

ToCitations(cs) == [i \in 1..Len(cs) |-> VerseCitation(cs[i])]

QueryResponse(d, citations) ==
    [query |-> d.query, answer |-> d.answer, citations |-> citations,
     has_answer |-> d.has_answer,
     processing_time |-> IF "processing_time" \in DOMAIN d
                         THEN Some(d.processing_time) ELSE NoFloat]

\* lines 37-46: the response built from a (truthy) cached result, outside any try
hit_response(cached_result) ==
    IF /\ ValidCitations(Get(cached_result, "citations", <<>>))
       /\ {"query", "answer", "has_answer"} \subseteq DOMAIN cached_result
    THEN Response200(QueryResponse(cached_result,
                                   ToCitations(Get(cached_result, "citations", <<>>))))
    ELSE Unhandled

\* lines 69-78: the history write; commit is what db.commit() does.
\* The result is the table after it, the exception raised, if any, and the
\* number of db.commit() calls made.
DB_ERROR == "database commit failed"

\* the history write without the test of current_user
save_history_unguarded(history_, current_user, query, result, citations, commit) ==
    IF commit = "raise"
    THEN [history |-> history_, exc |-> DB_ERROR, commits |-> 1]
    ELSE [history |-> Append(history_,
                         [user_id |-> current_user, query |-> query,
                          answer |-> result.answer,
                          citations |-> json_dumps(citations)]),
          exc |-> None, commits |-> 1]

save_history(history_, current_user, query, result, citations, commit) ==
    IF current_user # NoUser
    THEN IF commit = "raise"
         THEN [history |-> history_, exc |-> DB_ERROR, commits |-> 1]
         ELSE [history |-> Append(history_,
                              [user_id |-> current_user, query |-> query,
                               answer |-> result.answer,
                               citations |-> json_dumps(citations)]),
               exc |-> None, commits |-> 1]
    ELSE [history |-> history_, exc |-> None, commits |-> 0]

\* query_quran writing the history row before it caches the result
query_quran_history_first(st, req, env) ==
    Bind(CacheService_get(st.client, st.store, req.query, req.k,
                          req.score_threshold, req.window, env.get), LAMBDA cached_result :
    IF cached_result # <<>> /\ DOMAIN cached_result[1] # {}
    THEN Bind(hit_response(cached_result[1]), LAMBDA resp :
         [r |-> st.r, store |-> st.store, history |-> st.history, path |-> "hit",
          retrievals |-> 0, llm_calls |-> 0, set_called |-> FALSE, result |-> <<>>,
          cache_gets |-> 1, cache_sets |-> 0, commits |-> 0,
          failure |-> IF resp.status = 200 THEN None ELSE "KeyError: 'answer'",
          response |-> resp])
    ELSE
    Bind(answer_query(st.r, st.key_set, req.query, req.k, req.score_threshold,
                      req.window, env.llm, env.elapsed), LAMBDA a :
    IF a.r.exc # None
    THEN [r |-> [a.r EXCEPT !.exc = None], store |-> st.store, history |-> st.history,
          path |-> "miss", retrievals |-> a.retrievals, llm_calls |-> a.llm_calls,
          set_called |-> FALSE, result |-> <<>>, failure |-> a.r.exc,
          cache_gets |-> 1, cache_sets |-> 0, commits |-> 0,
          response |-> HTTPException(500, "Error processing query: " \o a.r.exc)]
    ELSE
    Bind(a.ret, LAMBDA result :
    Bind(ToCitations(Get(result, "citations", <<>>)), LAMBDA citations :
    Bind(save_history(st.history, req.user, req.query, result, citations, env.commit),
         LAMBDA h :
    IF h.exc # None
    THEN [r |-> a.r, store |-> st.store, history |-> h.history, path |-> "miss",
          retrievals |-> a.retrievals, llm_calls |-> a.llm_calls,
          set_called |-> FALSE, result |-> <<result>>, failure |-> h.exc,
          cache_gets |-> 1, cache_sets |-> 0, commits |-> h.commits,
          response |-> HTTPException(500, "Error processing query: " \o h.exc)]
    ELSE
    Bind(CacheService_set(st.client, st.store, req.query, req.k,
                          req.score_threshold, req.window, result, env.set), LAMBDA store2 :
    [r |-> a.r, store |-> store2, history |-> h.history, path |-> "miss",
     retrievals |-> a.retrievals, llm_calls |-> a.llm_calls,
     set_called |-> TRUE, result |-> <<result>>, failure |-> None,
     cache_gets |-> 1, cache_sets |-> 1, commits |-> h.commits,
     response |-> Response200(QueryResponse(result, citations))]))))))

\* query_quran: st is [r, client, store, history, key_set], req the request
\* [user, query, k, score_threshold, window], env what the outside world does
\* during the request [get, set, commit, llm, elapsed].  Besides the response and
\* the state after the request, the outcome records the path taken, the calls
\* made (retrievals, language-model calls, CacheService.get and .set calls,
\* commits), the result computed (<<>> if none) and the text of the exception raised
\* while the request was processed (None if none).
query_quran(st, req, env) ==
    Bind(CacheService_get(st.client, st.store, req.query, req.k,
                          req.score_threshold, req.window, env.get), LAMBDA cached_result :
    IF cached_result # <<>> /\ DOMAIN cached_result[1] # {}
    THEN Bind(hit_response(cached_result[1]), LAMBDA resp :
         [r |-> st.r, store |-> st.store, history |-> st.history, path |-> "hit",
          retrievals |-> 0, llm_calls |-> 0, set_called |-> FALSE, result |-> <<>>,
          cache_gets |-> 1, cache_sets |-> 0, commits |-> 0,
          failure |-> IF resp.status = 200 THEN None ELSE "KeyError: 'answer'",
          response |-> resp])
    ELSE
    Bind(answer_query(st.r, st.key_set, req.query, req.k, req.score_threshold,
                      req.window, env.llm, env.elapsed), LAMBDA a :
    IF a.r.exc # None
    THEN [r |-> [a.r EXCEPT !.exc = None], store |-> st.store, history |-> st.history,
          path |-> "miss", retrievals |-> a.retrievals, llm_calls |-> a.llm_calls,
          set_called |-> FALSE, result |-> <<>>, failure |-> a.r.exc,
          cache_gets |-> 1, cache_sets |-> 0, commits |-> 0,
          response |-> HTTPException(500, "Error processing query: " \o a.r.exc)]
    ELSE
    Bind(a.ret, LAMBDA result :
    Bind(CacheService_set(st.client, st.store, req.query, req.k,
                          req.score_threshold, req.window, result, env.set), LAMBDA store2 :
    Bind(ToCitations(Get(result, "citations", <<>>)), LAMBDA citations :
    Bind(save_history(st.history, req.user, req.query, result, citations, env.commit),
         LAMBDA h :
    [r |-> a.r, store |-> store2, history |-> h.history, path |-> "miss",
     retrievals |-> a.retrievals, llm_calls |-> a.llm_calls,
     set_called |-> TRUE, result |-> <<result>>, failure |-> h.exc,
     cache_gets |-> 1, cache_sets |-> 1, commits |-> h.commits,
     response |-> IF h.exc # None
                  THEN HTTPException(500, "Error processing query: " \o h.exc)
                  ELSE Response200(QueryResponse(result, citations))]))))))

\* get_query_history: the rows are those of the caller, newest first, after
\* skipping skip rows and keeping at most limit rows
Reverse(s) == [i \in 1..Len(s) |-> s[Len(s) + 1 - i]]

\* get_query_history without the filter on user_id
get_query_history_unfiltered(history_, current_user, skip, limit) ==
    IF current_user = NoUser
    THEN HTTPException(401, "Authentication required")
    ELSE Bind(Reverse(history_), LAMBDA ordered :
             [status |-> 200, body |-> <<>>, detail |-> None,
              rows |-> SubSeq(ordered, skip + 1, Min2(Len(ordered), skip + limit))])

get_query_history(history_, current_user, skip, limit) ==
    IF current_user = NoUser
    THEN HTTPException(401, "Authentication required")
    ELSE Bind(SelectSeq(history_, LAMBDA row : row.user_id = current_user), LAMBDA mine :
         Bind(Reverse(mine), LAMBDA ordered :
             [status |-> 200, body |-> <<>>, detail |-> None,
              rows |-> SubSeq(ordered, skip + 1, Min2(Len(ordered), skip + limit))]))

(***************************************************************************)
(* Direct calls of the library functions on inputs drawn from bounded      *)
(* sets; call records the arguments and the result.                        *)
(***************************************************************************)
SomeResults ==
    { <<>>,
      << Metadata[1] @@ [score |-> 3, context |-> <<>>] >>,
      << Metadata[2] @@ [score |-> 2, context |-> <<>>],
         Metadata[4] @@ [score |-> 1, context |-> <<>>] >> }

Bundles ==
    LET base == [query : {<<"f">>}, k : {5}, score_threshold : {NoFloat, Some(1)}] IN
      {b @@ [has_answer |-> h, results |-> r] : b \in base, h \in BOOLEAN, r \in SomeResults}
      \cup {b @@ [results |-> r] : b \in base, r \in SomeResults}
      \cup {b @@ [has_answer |-> h] : b \in base, h \in BOOLEAN}

SystemVars == <<redis_client, store, history, api_key, explainer, engine,
                files, counts, first, last>>

\* the inputs of a direct call are drawn by the initial state; the call applies
\* the function to them
InitExplain ==
    /\ call \in [fn : {"explain"}, citation_bundle : Bundles, llm : LLMOutcomes,
                 done : {FALSE}, out : {None}]
    /\ redis_client = None
    /\ store = <<>>
    /\ history = <<>>
    /\ api_key = TRUE
    /\ explainer = None
    /\ engine = [constructed |-> FALSE, model |-> FALSE, index |-> None, metadata |-> None]
    /\ files = [json |-> TRUE, index |-> "old", metadata |-> "old", texts |-> "old"]
    /\ counts = [builds |-> 0, requests |-> 0]
    /\ first = <<>>
    /\ last = [op |-> "none"]

ExplainCall ==
    /\ call.fn = "explain" /\ ~call.done
    /\ call' = [call EXCEPT !.done = TRUE, !.out = explain(call.citation_bundle, call.llm)]
    /\ UNCHANGED SystemVars

Thresholds == {NoFloat} \cup {Some(x) : x \in 0..(MaxScore + 1)}

InitSearch ==
    /\ \E k \in 1..MaxK :
          call \in [fn : {"search"}, k : {k}, score_threshold : Thresholds,
                    return_no_answer : BOOLEAN, hits : IndexSearch(Len(Metadata), k),
                    done : {FALSE}, out : {None}]
    /\ redis_client = None
    /\ store = <<>>
    /\ history = <<>>
    /\ api_key = TRUE
    /\ explainer = None
    /\ engine = [constructed |-> FALSE, model |-> FALSE, index |-> None, metadata |-> None]
    /\ files = [json |-> TRUE, index |-> "old", metadata |-> "old", texts |-> "old"]
    /\ counts = [builds |-> 0, requests |-> 0]
    /\ first = <<>>
    /\ last = [op |-> "none"]

SearchCall ==
    /\ call.fn = "search" /\ ~call.done
    /\ call' = [call EXCEPT !.done = TRUE,
                            !.out = search_hits(call.hits, Metadata, call.score_threshold,
                                                call.return_no_answer)]
    /\ UNCHANGED SystemVars

\* the process after start-up: the cache client connected or not, the API key
\* configured or not, the artifacts present, absent but buildable, or absent
\* with the corpus file missing too
Init ==
    /\ call = [fn |-> "none", done |-> TRUE]
    /\ redis_client \in {None, "client"}
    /\ store = <<>>
    /\ history = <<>>
    /\ api_key \in BOOLEAN
    /\ explainer = None
    /\ engine = [constructed |-> FALSE, model |-> FALSE, index |-> None, metadata |-> None]
    /\ files \in { [json |-> TRUE, index |-> "old", metadata |-> "old", texts |-> "old"],
                    [json |-> TRUE, index |-> None, metadata |-> None, texts |-> None],
                    [json |-> FALSE, index |-> None, metadata |-> None, texts |-> None] }
    /\ counts = [builds |-> 0, requests |-> 0]
    /\ first = <<>>
    /\ last = [op |-> "none"]

(***************************************************************************)
(* The requests of the model and what the outside world may do during one. *)
(***************************************************************************)
Users == {1, 2}

\* the tuples asked: one with an answer and one whose threshold no hit reaches;
\* a process without an API key is also asked a blank query
Tuples ==
    { [query |-> <<"f">>, k |-> 2, score_threshold |-> NoFloat, window |-> 1],
      [query |-> <<"f">>, k |-> 2, score_threshold |-> Some(MaxScore + 1), window |-> 1] }
    \cup (IF api_key THEN {}
          ELSE {[query |-> <<" ">>, k |-> 2, score_threshold |-> NoFloat, window |-> 1]})

Requests == {t @@ [user |-> u] : t \in Tuples, u \in {NoUser} \cup Users}

\* (an undecodable entry takes the same except clause of get as a failed call)
GetOutcomes == {"ok", "raise", "missing_field"}

SetOutcomes == {"ok", "raise"}

CommitOutcomes == {"ok", "raise"}

SystemLLMOutcomes ==
    { [kind |-> "ok", content |-> <<"*", "o", "k", "*">>],
      [kind |-> "raise", text |-> "Connection error."] }

\* does the request, with this outcome of the cache get, take the cache-hit path?
TakesHitPath(req, get) ==
    Bind(CacheService_get(redis_client, store, req.query, req.k, req.score_threshold,
                          req.window, get), LAMBDA cached_result :
         cached_result # <<>> /\ DOMAIN cached_result[1] # {})

\* what the outside world may do during a request: only the calls the request
\* can make have more than one outcome.  The measured processing time differs
\* from one request to the next.
Environments(req) ==
    UNION { IF TakesHitPath(req, get)
            THEN [get : {get}, set : {"ok"}, commit : {"ok"},
                  llm : {CHOOSE l \in SystemLLMOutcomes : TRUE},
                  elapsed : {counts.requests + 1}]
            ELSE [get : {get},
                  set : IF redis_client = None THEN {"ok"} ELSE SetOutcomes,
                  commit : IF req.user = NoUser THEN {"ok"} ELSE CommitOutcomes,
                  llm : IF IsBlank(req.query) \/ ~api_key
                        THEN {CHOOSE l \in SystemLLMOutcomes : TRUE}
                        ELSE SystemLLMOutcomes,
                  elapsed : {counts.requests + 1}] :
            get \in IF redis_client = None THEN {"ok"} ELSE GetOutcomes }

RequestKey(req) == CacheKey(req.query, req.k, req.score_threshold, req.window)

\* POST /queries/query.  last records the request, what the cache calls did
\* ("skipped" when the call was not made on a client), the outcome, and, when a
\* cache call failed, the response the same request gets with caching disabled.
SubmitQuery ==
    /\ counts.requests < MaxRequests
    /\ \E req \in Requests :
       \E env \in Environments(req) :
       \E st \in {[r |-> [engine |-> engine, files |-> files, builds |-> counts.builds,
                          explainer |-> explainer, exc |-> None],
                   client |-> redis_client, store |-> store, history |-> history,
                   key_set |-> api_key]} :
       \E o \in {query_quran(st, req, env)} :
       \E get_ \in {IF redis_client = None THEN "skipped" ELSE env.get},
          set_ \in {IF redis_client # None /\ o.set_called THEN env.set ELSE "skipped"} :
             /\ engine' = o.r.engine
             /\ files' = o.r.files
             /\ explainer' = o.r.explainer
             /\ counts' = [builds |-> o.r.builds, requests |-> counts.requests + 1]
             /\ store' = o.store
             /\ history' = o.history
             /\ first' = IF set_ = "ok"
                         THEN [x \in DOMAIN first \cup {RequestKey(req)} |->
                                 IF x = RequestKey(req) THEN o.response ELSE first[x]]
                         ELSE first
             /\ last' = [op |-> "query", req |-> req, get |-> get_, set |-> set_,
                         path |-> o.path, retrievals |-> o.retrievals,
                         llm_calls |-> o.llm_calls, result |-> o.result,
                         cache_gets |-> o.cache_gets, cache_sets |-> o.cache_sets,
                         commits |-> o.commits,
                         failure |-> o.failure,
                         rows_added |-> Len(o.history) - Len(history),
                         had_entry |-> RequestKey(req) \in DOMAIN store,
                         response |-> o.response,
                         nocache |-> IF get_ \in {"ok", "skipped"} /\ set_ \in {"ok", "skipped"}
                                     THEN <<>>
                                     ELSE <<query_quran([st EXCEPT !.client = None],
                                                        req, env).response>>]
    /\ UNCHANGED <<call, redis_client, api_key>>

\* GET /queries/history
GetHistory ==
    /\ \E user \in {NoUser} \cup Users, skip \in 0..MaxSkip, limit \in 0..MaxLimit :
         last' = [op |-> "history", user |-> user,
                  response |-> get_query_history(history, user, skip, limit)]
    /\ UNCHANGED <<call, redis_client, store, history, api_key, explainer, engine,
                   files, counts, first>>

\* the cache server drops an entry whose TTL has run out
Expire ==
    /\ \E cache_key \in DOMAIN store :
         /\ store' = [x \in DOMAIN store \ {cache_key} |-> store[x]]
         /\ first' = [x \in DOMAIN first \ {cache_key} |-> first[x]]
         /\ last' = [op |-> "expire", cache_key |-> cache_key]
    /\ UNCHANGED <<call, redis_client, history, api_key, explainer, engine, files,
                   counts>>

Next == SubmitQuery \/ GetHistory \/ Expire

Spec == Init /\ [][Next]_vars

SpecExplain == InitExplain /\ [][ExplainCall]_vars

SpecSearch == InitSearch /\ [][SearchCall]_vars


(***************************************************************************)
(* Properties of explain (checked under SpecExplain).                      *)
(***************************************************************************)
ExplainDone == call.fn = "explain" /\ call.done

NoAnswerBundle(b) ==
    \/ "has_answer" \notin DOMAIN b
    \/ b.has_answer = FALSE
    \/ ("results" \in DOMAIN b /\ b.results = <<>>)

\* C1: for every citation bundle whose has_answer is false or missing, or whose
\* results list is empty, explain returns exactly the fallback sentence and makes
\* no call to the language-model client.
C1_ExplainShortCircuit ==
    (ExplainDone /\ NoAnswerBundle(call.citation_bundle)) =>
        /\ call.out.ret = "The Qur'an does not explicitly address this question."
        /\ call.out.llm_calls = 0

\* the flag says there is an answer but the results list is empty, and the model
\* would have answered
C1_Witness ==
    /\ ExplainDone
    /\ "has_answer" \in DOMAIN call.citation_bundle /\ call.citation_bundle.has_answer
    /\ "results" \in DOMAIN call.citation_bundle /\ call.citation_bundle.results = <<>>
    /\ call.llm.kind = "ok"
    /\ call.out.ret = FALLBACK

ExpectedFailureText(llm) ==
    CASE llm.kind = "raise" -> llm.text
      [] llm.kind = "no_choices" -> "list index out of range"
      [] llm.kind = "no_content" -> "'NoneType' object has no attribute 'strip'"

\* C9: explain always returns a string and never raises; when the bundle has
\* results and the outbound call or the reading of its response fails, the
\* string is "Error generating explanation: " followed by the failure text.
C9_ExplainNeverRaises ==
    ExplainDone =>
        /\ call.out.raised = None
        /\ call.out.ret \in STRING
        /\ (~NoAnswerBundle(call.citation_bundle) /\ "results" \in DOMAIN call.citation_bundle
              /\ call.llm.kind # "ok")
            => call.out.ret = "Error generating explanation: " \o ExpectedFailureText(call.llm)

C9_Witness ==
    /\ ExplainDone
    /\ ~NoAnswerBundle(call.citation_bundle) /\ "results" \in DOMAIN call.citation_bundle
    /\ call.llm.kind = "raise"
    /\ call.out.ret = "Error generating explanation: Connection error."
    /\ call.out.llm_calls = 1

(***************************************************************************)
(* Properties of search (checked under SpecSearch).                        *)
(***************************************************************************)
SearchDone == call.fn = "search" /\ call.done

\* the i-th smallest element of a set of positions
Nth(S, i) == CHOOSE p \in S : Cardinality({q \in S : q < p}) = i - 1

\* C10: with a threshold, the result is exactly the subsequence of the raw top-k
\* hits scoring at or above it, in their original descending-score order, when at
\* least one survives; when none survives it is the empty list if
\* return_no_answer is true and the unfiltered list if it is false.  With no
\* threshold the raw list is returned.
C10_ThresholdFiltering ==
    SearchDone =>
        LET raw == format_hits(call.hits, Metadata)
            th == call.score_threshold
            keep == IF th = NoFloat THEN {}
                    ELSE {i \in 1..Len(raw) : raw[i].score >= th[1]}
        IN  /\ th = NoFloat => call.out = raw
            /\ (th # NoFloat /\ keep # {}) =>
                  /\ Len(call.out) = Cardinality(keep)
                  /\ \A j \in 1..Len(call.out) : call.out[j] = raw[Nth(keep, j)]
                  /\ \A i, j \in 1..Len(call.out) :
                        i < j => call.out[i].score >= call.out[j].score
            /\ (th # NoFloat /\ keep = {}) =>
                  call.out = IF call.return_no_answer THEN <<>> ELSE raw

\* some hits survive the threshold (one of them exactly at it) and some do not
C10_Witness ==
    /\ SearchDone
    /\ call.score_threshold = Some(2)
    /\ Len(format_hits(call.hits, Metadata)) = 4
    /\ Len(call.out) = 2
    /\ call.out[2].score = 2


(***************************************************************************)
(* Properties of the query endpoints (checked under Spec).                 *)
(***************************************************************************)
Submitted == last.op = "query"

LastKey == RequestKey(last.req)

\* C2: with an active cache, once a submit of a tuple has completed on the miss
\* path and filled the entry, every later submit of the same tuple made while the
\* entry is there returns the same query, answer, citations, has_answer and
\* processing_time as that first response and invokes neither the retrieval
\* engine nor the language model.
C2_CacheHitRepeatsFirstResponse ==
    (/\ Submitted /\ last.get = "ok" /\ last.had_entry
     /\ LastKey \in DOMAIN first /\ first[LastKey].status = 200)
    => /\ last.path = "hit"
       /\ last.response.status = 200
       /\ last.response.body = first[LastKey].body
       /\ last.retrievals = 0
       /\ last.llm_calls = 0

\* a second submit of a tuple is served from the entry the first one stored
C2_Witness ==
    /\ Submitted /\ last.get = "ok" /\ last.had_entry /\ last.path = "hit"
    /\ first[LastKey].status = 200
    /\ last.response.body.has_answer
    /\ last.response.body.processing_time = Some(1)
    /\ counts.requests = 2

\* C3: every submit by an authenticated caller that is answered with 200 adds
\* exactly one QueryHistory row for that caller, whether the answer was served
\* from the cache or computed.
C3_OneRowPerAnsweredQuery ==
    (Submitted /\ last.req.user # NoUser /\ last.response.status = 200)
    => /\ last.rows_added = 1
       /\ history[Len(history)].user_id = last.req.user

C5_MissStoresResult ==
    (Submitted /\ last.path = "miss" /\ last.result # <<>> /\ last.set = "ok")
    => /\ LastKey \in DOMAIN store
       /\ store[LastKey] = json_dumps(last.result[1])

\* an anonymous caller's miss without an answer is stored
C5_Witness ==
    /\ Submitted /\ last.path = "miss" /\ last.set = "ok"
    /\ last.req.user = NoUser
    /\ last.result # <<>> /\ ~last.result[1].has_answer
    /\ LastKey \in DOMAIN store

\* C6: every row returned to an authenticated caller of get history has that
\* caller's user_id; an unauthenticated caller gets 401 and no rows.
C6_HistoryIsolation ==
    last.op = "history" =>
        /\ last.user = NoUser =>
              last.response.status = 401 /\ last.response.rows = <<>>
        /\ last.user # NoUser =>
              /\ last.response.status = 200
              /\ \A i \in 1..Len(last.response.rows) :
                    last.response.rows[i].user_id = last.user

\* a caller gets a row back while the table also holds another user's row
C6_Witness ==
    /\ last.op = "history" /\ last.user = 1
    /\ Len(last.response.rows) = 1
    /\ \E i \in 1..Len(history) : history[i].user_id = 2

\* C7: any failure raised while a submit is processed is reported as HTTP 500
\* whose detail carries the failure's text.
C7_FailureReportedWithText ==
    (Submitted /\ last.failure # None)
    => /\ last.response.status = 500
       /\ last.response.detail = "Error processing query: " \o last.failure

\* C8: whatever a cache call raises or returns, the request completes with the
\* status and body it would have had with caching disabled.
C8_CacheFailureInvisible ==
    (Submitted /\ last.nocache # <<>>)
    => /\ last.response.status = last.nocache[1].status
       /\ last.response.body = last.nocache[1].body


(***************************************************************************)
(* Direct calls of add_context_window.  The engine's metadata is one of    *)
(* two corpora: chapters in file order, and a file whose verses are out of *)
(* order with one verse missing.                                           *)
(***************************************************************************)
MaxAyah == 5         \* number of verses of the longer chapter
MaxWindow == 3       \* largest window a direct call is tried with

OrderedCorpus ==
    [i \in 1..(MaxAyah + 2) |->
        IF i <= MaxAyah THEN Verse(1, "Opening", MaxAyah, i)
                        ELSE Verse(2, "Cow", 2, i - MaxAyah)]

ShuffledCorpus ==
    Reverse(SelectSeq(OrderedCorpus,
                      LAMBDA v : ~(v.surah_number = 1 /\ v.ayah_number = 2)))

Corpora == {OrderedCorpus, ShuffledCorpus}

\* the results a caller passes: a hit of the corpus, a verse beyond the end of
\* its chapter, and a verse of a chapter the corpus does not have
ContextResults(metadata) ==
    {metadata[i] @@ [score |-> 1] : i \in DOMAIN metadata}
    \cup {Verse(1, "Opening", MaxAyah, MaxAyah + 2) @@ [score |-> 1],
          Verse(3, "Family", 1, 1) @@ [score |-> 1]}

\* add_context_window writing the context into its argument
add_context_window_in_place(metadata, result, window) ==
    Bind(add_context_window(metadata, result, window), LAMBDA result_with_context :
         [result |-> result_with_context, ret |-> result_with_context])

\* the call as the caller sees it: the argument object after the call and the
\* returned object (result.copy() gives the returned dict its own identity)
add_context_window_call(metadata, result, window) ==
    Bind(add_context_window(metadata, result, window), LAMBDA result_with_context :
         [result |-> result, ret |-> result_with_context])

InitContext ==
    /\ \E metadata \in Corpora :
          call \in [fn : {"add_context_window"}, metadata : {metadata},
                    result : ContextResults(metadata), window : 0..MaxWindow,
                    done : {FALSE}, out : {None}]
    /\ redis_client = None
    /\ store = <<>>
    /\ history = <<>>
    /\ api_key = TRUE
    /\ explainer = None
    /\ engine = [constructed |-> FALSE, model |-> FALSE, index |-> None, metadata |-> None]
    /\ files = [json |-> TRUE, index |-> "old", metadata |-> "old", texts |-> "old"]
    /\ counts = [builds |-> 0, requests |-> 0]
    /\ first = <<>>
    /\ last = [op |-> "none"]

ContextCall ==
    /\ call.fn = "add_context_window" /\ ~call.done
    /\ call' = [call EXCEPT !.done = TRUE,
                            !.out = add_context_window_call(call.metadata, call.result,
                                                            call.window)]
    /\ UNCHANGED SystemVars

SpecContext == InitContext /\ [][ContextCall]_vars

ContextDone == call.fn = "add_context_window" /\ call.done

\* the verses the context must hold: those of the result's chapter numbered in
\* [max(1, v - w), min(largest number present in the chapter, v + w)], v excepted
ExpectedContext ==
    LET c == call.result.surah_number
        v == call.result.ayah_number
        w == call.window
        chapter == {x \in Range(call.metadata) : x.surah_number = c}
        lo == IF v - w >= 1 THEN v - w ELSE 1
    IN  IF chapter = {} THEN {}
        ELSE LET largest == CHOOSE n \in {x.ayah_number : x \in chapter} :
                               \A x \in chapter : x.ayah_number <= n
                 hi == IF largest <= v + w THEN largest ELSE v + w
             IN  {[f \in ContextFields |-> x[f]] :
                    x \in {y \in chapter : /\ lo <= y.ayah_number
                                           /\ y.ayah_number <= hi
                                           /\ y.ayah_number # v}}

\* C11: the context attached by add_context_window is exactly the verses of the
\* result's chapter within the clipped window other than the verse itself, in
\* ascending verse order and without a score; the returned dict is the input
\* plus the context key, and the input itself is unchanged and has no context key.
C11_ContextWindow ==
    ContextDone =>
        LET context == call.out.ret.context IN
        /\ Range(context) = ExpectedContext
        /\ Len(context) = Cardinality(ExpectedContext)
        /\ \A i, j \in DOMAIN context :
              i < j => context[i].ayah_number < context[j].ayah_number
        /\ \A i \in DOMAIN context : "score" \notin DOMAIN context[i]
        /\ DOMAIN call.out.ret = DOMAIN call.result \cup {"context"}
        /\ \A f \in DOMAIN call.result : call.out.ret[f] = call.result[f]
        /\ call.out.result = call.result
        /\ "context" \notin DOMAIN call.out.result

\* verse 3 of the out-of-order corpus with window 2: verse 2 is missing, so the
\* context is verses 1, 4, 5 put back in ascending order
C11_Witness ==
    /\ ContextDone
    /\ call.metadata = ShuffledCorpus
    /\ call.result.surah_number = 1 /\ call.result.ayah_number = 3 /\ call.window = 2
    /\ [i \in DOMAIN call.out.ret.context |-> call.out.ret.context[i].ayah_number]
          = <<1, 4, 5>>


(***************************************************************************)
(* Direct calls of the engine and the service in one process: search,      *)
(* retrieve_citation_bundle, answer_query and the explainer property, in   *)
(* any order.  A call works on the engine, the files and the explainer the *)
(* earlier calls left; call records its arguments, the state it started    *)
(* from, what it returned (out) or raised (exc), and how many accesses to  *)
(* the explainer have failed so far.                                       *)
(***************************************************************************)
\* the artifact files a process may find when it starts: all present, none, one
\* of index and metadata missing (a build writes the index file first), with
\* the corpus file present or missing
ArtifactFiles ==
    { [json |-> TRUE, index |-> "old", metadata |-> "old", texts |-> "old"],
      [json |-> TRUE, index |-> None, metadata |-> None, texts |-> None],
      [json |-> TRUE, index |-> "old", metadata |-> None, texts |-> "old"],
      [json |-> TRUE, index |-> None, metadata |-> "old", texts |-> "old"],
      [json |-> FALSE, index |-> None, metadata |-> None, texts |-> None],
      [json |-> FALSE, index |-> "old", metadata |-> None, texts |-> None] }

MaxCalls == 2        \* number of direct calls in one run

ServiceQueries == {<<"f">>, <<" ", "\n">>, <<>>}

ServiceThresholds == {NoFloat, Some(2), Some(MaxScore + 1)}

ServiceKs == {1, MaxK}

ServiceState ==
    [engine |-> engine, files |-> files, builds |-> counts.builds,
     explainer |-> explainer, exc |-> None]

InitService ==
    /\ call = [fn |-> "none", done |-> TRUE, key_failures |-> 0]
    /\ redis_client = None
    /\ store = <<>>
    /\ history = <<>>
    /\ api_key \in BOOLEAN
    /\ explainer = None
    /\ engine = [constructed |-> FALSE, model |-> FALSE, index |-> None, metadata |-> None]
    /\ files \in ArtifactFiles
    /\ counts = [builds |-> 0, requests |-> 0]
    /\ first = <<>>
    /\ last = [op |-> "none"]

\* the state a call leaves, and the record of the call
Returned(fn, args, r, out) ==
    /\ engine' = r.engine
    /\ files' = r.files
    /\ explainer' = r.explainer
    /\ counts' = [builds |-> r.builds, requests |-> counts.requests + 1]
    /\ call' = [fn |-> fn, done |-> TRUE, args |-> args, before |-> ServiceState,
                out |-> out, exc |-> r.exc,
                key_failures |-> call.key_failures
                                 + (IF r.exc = NO_API_KEY THEN 1 ELSE 0)]
    /\ UNCHANGED <<redis_client, store, history, api_key, first, last>>

SearchRequest ==
    /\ counts.requests < MaxCalls
    /\ \E query \in ServiceQueries, k \in ServiceKs, score_threshold \in ServiceThresholds,
          return_no_answer \in BOOLEAN :
       \E s \in {search(QuranService_retrieval(ServiceState), query, k, score_threshold,
                        return_no_answer)} :
          Returned("search",
                   [query |-> query, k |-> k, score_threshold |-> score_threshold,
                    return_no_answer |-> return_no_answer],
                   s.r, s.ret)

BundleRequest ==
    /\ counts.requests < MaxCalls
    /\ \E query \in ServiceQueries, k \in ServiceKs, score_threshold \in ServiceThresholds,
          window \in 0..1 :
       \E s \in {retrieve_citation_bundle(QuranService_retrieval(ServiceState), query, k,
                                          score_threshold, window)} :
          Returned("retrieve_citation_bundle",
                   [query |-> query, k |-> k, score_threshold |-> score_threshold,
                    window |-> window],
                   s.r, s.ret)

AnswerRequest ==
    /\ counts.requests < MaxCalls
    /\ \E query \in ServiceQueries, k \in ServiceKs, score_threshold \in ServiceThresholds,
          llm \in SystemLLMOutcomes :
       \E a \in {answer_query(ServiceState, api_key, query, k, score_threshold, 1, llm,
                              counts.requests + 1)} :
          Returned("answer_query",
                   [query |-> query, k |-> k, score_threshold |-> score_threshold,
                    window |-> 1],
                   a.r, a.ret)

ExplainerAccess ==
    /\ counts.requests < MaxCalls
    /\ \E r \in {QuranService_explainer(ServiceState, api_key)} :
          Returned("explainer", <<>>, r, r.explainer)

NextService == SearchRequest \/ BundleRequest \/ AnswerRequest \/ ExplainerAccess

SpecService == InitService /\ [][NextService]_vars


(***************************************************************************)
(* Properties of the engine and the service (checked under SpecService).   *)
(***************************************************************************)
BundleReturned == call.fn = "retrieve_citation_bundle" /\ call.exc = None

AnswerReturned == call.fn = "answer_query" /\ call.exc = None

AboveThreshold(results, score_threshold) ==
    score_threshold # NoFloat =>
        \A i \in DOMAIN results : results[i].score >= score_threshold[1]

\* C12: in every bundle retrieve_citation_bundle returns and in every result
\* answer_query returns, has_answer is true exactly when the list of results
\* (citations) is non-empty, and that list is the one left by threshold filtering.
C12_HasAnswerIffResults ==
    /\ BundleReturned =>
          /\ call.out.has_answer = (Len(call.out.results) > 0)
          /\ AboveThreshold(call.out.results, call.args.score_threshold)
    /\ AnswerReturned =>
          /\ call.out.has_answer = (Len(call.out.citations) > 0)
          /\ AboveThreshold(call.out.citations, call.args.score_threshold)

\* the index returns hits for the query but none reaches the threshold: the
\* bundle has no results and says so
C12_Witness ==
    /\ BundleReturned
    /\ call.args.query = <<"f">> /\ call.args.score_threshold = Some(MaxScore + 1)
    /\ call.out.results = <<>> /\ call.out.has_answer = FALSE

BlankQuery(query) == \A i \in DOMAIN query : query[i] \in {" ", "\n", "\t"}

\* C13: search on an empty or whitespace-only query returns the empty list and
\* leaves the engine as it was: model, index and metadata are not loaded, no
\* file is written and no build runs, also when the index files are absent.
C13_BlankSearchTouchesNothing ==
    (call.fn = "search" /\ BlankQuery(call.args.query)) =>
        /\ call.out = <<>> /\ call.exc = None
        /\ engine.model = call.before.engine.model
        /\ engine.index = call.before.engine.index
        /\ engine.metadata = call.before.engine.metadata
        /\ files = call.before.files
        /\ counts.builds = call.before.builds

\* a whitespace-only search on a fresh engine whose index files are absent
C13_Witness ==
    /\ call.fn = "search" /\ call.args.query = <<" ", "\n">>
    /\ call.before.files.index = None /\ call.before.files.json
    /\ call.before.engine.index = None
    /\ ~engine.model /\ engine.index = None /\ engine.metadata = None
    /\ files.index = None /\ counts.builds = 0

\* C14: with no API key configured an access to the explainer property fails
\* with "OPENAI_API_KEY not configured" and constructs no explainer; nothing is
\* remembered, so the explainer stays unconstructed and every access fails.
C14_ExplainerNeedsKey ==
    ~api_key =>
        /\ explainer = None
        /\ call.fn = "explainer" =>
              call.exc = "OPENAI_API_KEY not configured" /\ call.out = None

\* the second failed access in a row
C14_Witness ==
    /\ ~api_key /\ call.fn = "explainer" /\ call.before.explainer = None
    /\ call.exc = "OPENAI_API_KEY not configured" /\ call.key_failures >= 2


(***************************************************************************)
(* Direct calls of CacheService in one process: construction, then get,    *)
(* set, clear and _generate_cache_key in any order.  A call of get, set or *)
(* clear is given as what the caller observes:                             *)
(*   client        self.redis_client after the call                        *)
(*   store         the contents of the cache server after the call         *)
(*   ret           the returned value (get: <<>> is None)                  *)
(*   raised        None or the exception that reaches the caller           *)
(*   client_calls  number of calls made on the cache client                *)
(***************************************************************************)
ConstructOutcomes == {"ok", "from_url_raises", "ping_raises"}

\* CacheService.__init__ with the except clause leaving the client assigned
CacheService_init_client_kept(redis_available, redis_url_set, outcome) ==
    IF redis_available /\ redis_url_set
    THEN IF outcome = "from_url_raises" THEN None ELSE "client"
    ELSE None

\* CacheService.__init__: the value of self.redis_client it leaves
CacheService_init(redis_available, redis_url_set, outcome) ==
    IF redis_available /\ redis_url_set
    THEN IF outcome = "ok" THEN "client" ELSE None
    ELSE None

CACHE_ERROR == "Error connecting to the cache server"

\* CacheService.get without its try/except
CacheService_get_call_unguarded(client, store_, query, k, score_threshold, window, outcome) ==
    [client |-> client, store |-> store_,
     ret |-> CacheService_get(client, store_, query, k, score_threshold, window, outcome),
     raised |-> IF client # None /\ outcome \in {"raise", "undecodable"}
                THEN CACHE_ERROR ELSE None,
     client_calls |-> IF client = None THEN 0 ELSE 1]

CacheService_get_call(client, store_, query, k, score_threshold, window, outcome) ==
    [client |-> client, store |-> store_,
     ret |-> CacheService_get(client, store_, query, k, score_threshold, window, outcome),
     raised |-> None,
     client_calls |-> IF client = None THEN 0 ELSE 1]

CacheService_set_call(client, store_, query, k, score_threshold, window, result, outcome) ==
    [client |-> client,
     store |-> CacheService_set(client, store_, query, k, score_threshold, window, result,
                                outcome),
     ret |-> None, raised |-> None,
     client_calls |-> IF client = None THEN 0 ELSE 1]

\* CacheService.clear with the default pattern: every key of the namespace goes
CacheService_clear(client, store_, outcome) ==
    IF client = None THEN store_
    ELSE IF outcome = "raise" THEN store_
    ELSE <<>>

CacheService_clear_call(client, store_, outcome) ==
    [client |-> client, store |-> CacheService_clear(client, store_, outcome),
     ret |-> None, raised |-> None,
     client_calls |-> IF client = None THEN 0
                      ELSE IF outcome = "ok" /\ DOMAIN store_ # {} THEN 2 ELSE 1]


\* the tuples keys are derived for: queries with and without the separator,
\* k and window of one and two digits, no threshold and two thresholds
KeyTuples ==
    [query : {<<"f">>, <<"f", ":", "1">>}, k : {1, 11}, score_threshold : {NoFloat, Some(1), Some(5)},
     window : {1, 11}]

\* the tuples get and set are called with, and the results set is given
CacheTuples ==
    { [query |-> <<"f">>, k |-> 1, score_threshold |-> NoFloat, window |-> 1],
      [query |-> <<"f">>, k |-> 1, score_threshold |-> Some(5), window |-> 1],
      [query |-> <<"f", ":", "1">>, k |-> 1, score_threshold |-> NoFloat, window |-> 1] }

CacheResults ==
    { [query |-> <<"f">>, answer |-> "ok", citations |-> <<>>, has_answer |-> TRUE,
       processing_time |-> 1],
      [query |-> <<"f">>, answer |-> FALLBACK, citations |-> <<>>, has_answer |-> FALSE,
       processing_time |-> 2] }

TupleKey(t) == CacheKey(t.query, t.k, t.score_threshold, t.window)

\* the process right after cache_service = CacheService(); the cache server may
\* hold an entry written by an earlier process
InitCache ==
    /\ \E redis_available \in BOOLEAN, redis_url_set \in BOOLEAN,
          outcome \in ConstructOutcomes :
          /\ redis_client = CacheService_init(redis_available, redis_url_set, outcome)
          /\ last = [op |-> "construct", redis_available |-> redis_available,
                     redis_url_set |-> redis_url_set, outcome |-> outcome]
    /\ call = [fn |-> "none", done |-> TRUE]
    /\ store \in {<<>>} \cup {[x \in {TupleKey(t)} |-> json_dumps(r)] :
                                 t \in CacheTuples, r \in CacheResults}
    /\ history = <<>>
    /\ api_key = TRUE
    /\ explainer = None
    /\ engine = [constructed |-> FALSE, model |-> FALSE, index |-> None, metadata |-> None]
    /\ files = [json |-> TRUE, index |-> "old", metadata |-> "old", texts |-> "old"]
    /\ counts = [builds |-> 0, requests |-> 0]
    /\ first = <<>>

CacheCalled(fn, args, outcome, o) ==
    /\ redis_client' = o.client
    /\ store' = o.store
    /\ counts' = [counts EXCEPT !.requests = @ + 1]
    /\ call' = [fn |-> fn, done |-> TRUE, args |-> args, outcome |-> outcome,
                client |-> redis_client, before |-> store,
                out |-> o.ret, raised |-> o.raised, client_calls |-> o.client_calls]
    /\ UNCHANGED <<history, api_key, explainer, engine, files, first, last>>

CacheGet ==
    /\ counts.requests < MaxCalls
    /\ \E t \in CacheTuples, outcome \in {"ok", "raise", "undecodable"} :
       \E o \in {CacheService_get_call(redis_client, store, t.query, t.k, t.score_threshold,
                                       t.window, outcome)} :
          CacheCalled("get", t, outcome, o)

CacheSet ==
    /\ counts.requests < MaxCalls
    /\ \E t \in CacheTuples, result \in CacheResults, outcome \in SetOutcomes :
       \E o \in {CacheService_set_call(redis_client, store, t.query, t.k, t.score_threshold,
                                       t.window, result, outcome)} :
          CacheCalled("set", t @@ [result |-> result], outcome, o)

CacheClear ==
    /\ counts.requests < MaxCalls
    /\ \E outcome \in {"ok", "raise"} :
       \E o \in {CacheService_clear_call(redis_client, store, outcome)} :
          CacheCalled("clear", <<>>, outcome, o)

NextCache == CacheGet \/ CacheSet \/ CacheClear

SpecCache == InitCache /\ [][NextCache]_vars


(***************************************************************************)
(* Key derivation on two tuples a and b, drawn by the initial state: the   *)
(* keys of both are derived, a result is set under a, and b is looked up.  *)
(* call.keys is <<>> until the keys are derived, call.got is <<>> until    *)
(* the lookup is made and then says what get returned and whether the set  *)
(* had been made before it.                                                *)
(***************************************************************************)
KeyResult == CHOOSE r \in CacheResults : r.has_answer

InitKey ==
    /\ call \in [fn : {"_generate_cache_key"}, a : KeyTuples, b : KeyTuples,
                 keys : {<<>>}, set : {FALSE}, got : {<<>>}]
    /\ redis_client = "client"
    /\ store = <<>>
    /\ history = <<>>
    /\ api_key = TRUE
    /\ explainer = None
    /\ engine = [constructed |-> FALSE, model |-> FALSE, index |-> None, metadata |-> None]
    /\ files = [json |-> TRUE, index |-> "old", metadata |-> "old", texts |-> "old"]
    /\ counts = [builds |-> 0, requests |-> 0]
    /\ first = <<>>
    /\ last = [op |-> "none"]

KeyDerive ==
    /\ call.fn = "_generate_cache_key" /\ call.keys = <<>>
    /\ call' = [call EXCEPT !.keys =
                   << [a |-> _generate_cache_key(call.a.query, call.a.k,
                                                 call.a.score_threshold, call.a.window),
                       b |-> _generate_cache_key(call.b.query, call.b.k,
                                                 call.b.score_threshold, call.b.window)] >>]
    /\ UNCHANGED SystemVars

KeySet ==
    /\ call.fn = "_generate_cache_key" /\ ~call.set
    /\ store' = CacheService_set(redis_client, store, call.a.query, call.a.k,
                                 call.a.score_threshold, call.a.window, KeyResult, "ok")
    /\ call' = [call EXCEPT !.set = TRUE]
    /\ UNCHANGED <<redis_client, history, api_key, explainer, engine, files, counts,
                   first, last>>

KeyGet ==
    /\ call.fn = "_generate_cache_key" /\ call.got = <<>>
    /\ call' = [call EXCEPT !.got =
                   << [after_set |-> call.set,
                       ret |-> CacheService_get(redis_client, store, call.b.query, call.b.k,
                                                call.b.score_threshold, call.b.window,
                                                "ok")] >>]
    /\ UNCHANGED SystemVars

NextKey == KeyDerive \/ KeySet \/ KeyGet

SpecKey == InitKey /\ [][NextKey]_vars


(***************************************************************************)
(* Properties of CacheService (checked under SpecCache and SpecKey).       *)
(***************************************************************************)
CacheOp == call.fn \in {"get", "set", "clear"}

ConstructionFailed ==
    last.op = "construct" /\ (~last.redis_url_set \/ last.outcome # "ok")

\* C15: when the connection string is unset or connecting or pinging fails during
\* construction, the client is None in every later state: get returns absent,
\* set and clear leave the cache server as it is, none of them makes a call on
\* a client, and no client is ever created again.
C15_CacheDisabledForGood ==
    ConstructionFailed =>
        /\ redis_client = None
        /\ CacheOp =>
              /\ call.client_calls = 0
              /\ store = call.before
              /\ call.raised = None
              /\ call.fn = "get" => call.out = <<>>

\* the ping failed at construction; the server holds an entry for the tuple and
\* would have answered, yet get returns absent
C15_Witness ==
    /\ last.op = "construct" /\ last.redis_available /\ last.redis_url_set
    /\ last.outcome = "ping_raises"
    /\ call.fn = "get" /\ call.outcome = "ok" /\ TupleKey(call.args) \in DOMAIN store
    /\ call.out = <<>>

\* C16: a failure of the cache client or of the JSON encoding/decoding during
\* get, set or clear never reaches the caller: get returns absent, set and clear
\* return normally.
C16_CacheBestEffort ==
    (CacheOp /\ call.client # None /\ call.outcome # "ok") =>
        /\ call.raised = None
        /\ call.fn = "get" => call.out = <<>>
        /\ call.fn \in {"set", "clear"} => call.out = None

\* the entry read back from the server cannot be decoded
C16_Witness ==
    /\ call.fn = "get" /\ call.client = "client" /\ call.outcome = "undecodable"
    /\ call.out = <<>> /\ call.raised = None

\* C18: equal tuples derive equal keys and different tuples (in particular tuples
\* differing in one of query, k, score_threshold, window) derive different keys;
\* set stores under quran_query: followed by the key of its tuple and get looks
\* up the same name, so a lookup after the set finds the entry exactly when the
\* two tuples are the same.
C18_KeySeparation ==
    /\ call.keys # <<>> =>
          ((call.a = call.b) <=> (call.keys[1].a = call.keys[1].b))
    /\ (call.keys # <<>> /\ call.set) =>
          DOMAIN store = {"quran_query:" \o call.keys[1].a}
    /\ (call.got # <<>> /\ call.got[1].after_set) =>
          ((call.got[1].ret # <<>>) <=> (call.a = call.b))

\* two tuples differing only in the threshold (none against a number): the keys
\* differ and the entry set under the first is not found under the second
C18_Witness ==
    /\ call.a.score_threshold = NoFloat /\ call.b.score_threshold = Some(5)
    /\ call.a.query = call.b.query /\ call.a.k = call.b.k /\ call.a.window = call.b.window
    /\ call.keys # <<>> /\ call.keys[1].a # call.keys[1].b
    /\ call.set /\ call.got # <<>> /\ call.got[1].after_set /\ call.got[1].ret = <<>>


(***************************************************************************)
(* Settings.cors_origins_list and the re-append of main.py.  The           *)
(* configured string is a sequence of pieces: a whole origin ("L" is       *)
(* http://localhost:3000, "H" is http://127.0.0.1:3000, "X" another        *)
(* origin), a comma or a blank.                                            *)
(***************************************************************************)
MaxCorsLen == 4      \* largest number of pieces of the configured string

LOCALHOST == "http://localhost:3000"

LOOPBACK == "http://127.0.0.1:3000"

CorsPieces == {"L", "H", "X", ",", " "}

PieceText(c) ==
    CASE c = "L" -> LOCALHOST
      [] c = "H" -> LOOPBACK
      [] c = "X" -> "https://example.org"
      [] OTHER -> c

\* s.split(","): the pieces between the commas, empty ones included
RECURSIVE split_comma(_, _)
split_comma(s, current) ==
    IF s = <<>> THEN <<current>>
    ELSE IF Head(s) = "," THEN <<current>> \o split_comma(Tail(s), <<>>)
    ELSE split_comma(Tail(s), Append(current, Head(s)))

append_if_absent(list, x) == IF x \in Range(list) THEN list ELSE Append(list, x)

\* [origin.strip() for origin in CORS_ORIGINS.split(",") if origin.strip()]
configured_origins(CORS_ORIGINS) ==
    Bind(split_comma(CORS_ORIGINS, <<>>), LAMBDA parts :
    Bind(SelectSeq([i \in DOMAIN parts |-> strip(parts[i])], LAMBDA e : e # <<>>),
         LAMBDA kept :
         [i \in DOMAIN kept |-> Join([j \in DOMAIN kept[i] |-> PieceText(kept[i][j])])]))

cors_origins_list(CORS_ORIGINS) ==
    IF CORS_ORIGINS = <<>> THEN <<LOCALHOST, LOOPBACK>>
    ELSE append_if_absent(append_if_absent(configured_origins(CORS_ORIGINS), LOCALHOST),
                          LOOPBACK)

\* main.py lines 36-41 on the list the property returned
main_cors_origins(cors_origins) ==
    append_if_absent(append_if_absent(cors_origins, LOCALHOST), LOOPBACK)

InitCors ==
    /\ \E n \in 0..MaxCorsLen :
          call \in [fn : {"cors_origins_list"}, CORS_ORIGINS : [1..n -> CorsPieces],
                    list : {<<>>}, main : {<<>>}]
    /\ redis_client = None
    /\ store = <<>>
    /\ history = <<>>
    /\ api_key = TRUE
    /\ explainer = None
    /\ engine = [constructed |-> FALSE, model |-> FALSE, index |-> None, metadata |-> None]
    /\ files = [json |-> TRUE, index |-> "old", metadata |-> "old", texts |-> "old"]
    /\ counts = [builds |-> 0, requests |-> 0]
    /\ first = <<>>
    /\ last = [op |-> "none"]

\* settings.cors_origins_list is read (main.py line 36)
CorsList ==
    /\ call.fn = "cors_origins_list" /\ call.list = <<>>
    /\ call' = [call EXCEPT !.list = <<cors_origins_list(call.CORS_ORIGINS)>>]
    /\ UNCHANGED SystemVars

\* main.py appends the two development origins if absent (lines 38-41)
CorsMain ==
    /\ call.fn = "cors_origins_list" /\ call.list # <<>> /\ call.main = <<>>
    /\ call' = [call EXCEPT !.main = <<main_cors_origins(call.list[1])>>]
    /\ UNCHANGED SystemVars

NextCors == CorsList \/ CorsMain

SpecCors == InitCors /\ [][NextCors]_vars

Occurrences(list, x) == Cardinality({i \in DOMAIN list : list[i] = x})

\* C17: for every configured origins string the derived allow-list holds
\* http://localhost:3000 and http://127.0.0.1:3000 exactly once each, the
\* configured entries come first in their configured order, and the re-append
\* of main.py leaves the list as it is.
C17_DefaultsExactlyOnce ==
    /\ call.list # <<>> =>
          /\ Occurrences(call.list[1], "http://localhost:3000") = 1
          /\ Occurrences(call.list[1], "http://127.0.0.1:3000") = 1
          /\ call.CORS_ORIGINS # <<>> =>
                \E n \in 0..Len(call.list[1]) :
                    SubSeq(call.list[1], 1, n) = configured_origins(call.CORS_ORIGINS)
    /\ call.main # <<>> => call.main[1] = call.list[1]


(***************************************************************************)
(* UserCreate.validate_password.  A password is given by how many of its   *)
(* characters take one, two, three and four bytes in UTF-8.                *)
(***************************************************************************)
MaxOneByte == 74     \* largest number of one-byte characters tried
MaxFourByte == 19    \* largest number of four-byte characters tried

Passwords == [one : 0..MaxOneByte, two : 0..1, three : 0..1, four : 0..MaxFourByte]

\* len(v): the number of characters
len(v) == v.one + v.two + v.three + v.four

\* len(v.encode('utf-8'))
utf8_len(v) == v.one + 2 * v.two + 3 * v.three + 4 * v.four

TOO_SHORT == "Password must be at least 6 characters long"

TOO_LONG == "Password is too long (maximum 72 bytes/characters)"

\* validate_password counting characters where the code counts bytes
validate_password_by_chars(v) ==
    IF len(v) < 6 THEN [accepted |-> FALSE, error |-> TOO_SHORT]
    ELSE IF len(v) > 72 THEN [accepted |-> FALSE, error |-> TOO_LONG]
    ELSE [accepted |-> TRUE, error |-> None]

validate_password(v) ==
    IF len(v) < 6 THEN [accepted |-> FALSE, error |-> TOO_SHORT]
    ELSE IF utf8_len(v) > 72 THEN [accepted |-> FALSE, error |-> TOO_LONG]
    ELSE [accepted |-> TRUE, error |-> None]

InitPassword ==
    /\ call \in [fn : {"validate_password"}, password : Passwords, done : {FALSE},
                 out : {None}]
    /\ redis_client = None
    /\ store = <<>>
    /\ history = <<>>
    /\ api_key = TRUE
    /\ explainer = None
    /\ engine = [constructed |-> FALSE, model |-> FALSE, index |-> None, metadata |-> None]
    /\ files = [json |-> TRUE, index |-> "old", metadata |-> "old", texts |-> "old"]
    /\ counts = [builds |-> 0, requests |-> 0]
    /\ first = <<>>
    /\ last = [op |-> "none"]

PasswordCall ==
    /\ call.fn = "validate_password" /\ ~call.done
    /\ call' = [call EXCEPT !.done = TRUE, !.out = validate_password(call.password)]
    /\ UNCHANGED SystemVars

SpecPassword == InitPassword /\ [][PasswordCall]_vars

PasswordDone == call.fn = "validate_password" /\ call.done

Characters == call.password.one + call.password.two + call.password.three
              + call.password.four

Bytes == call.password.one + 2 * call.password.two + 3 * call.password.three
         + 4 * call.password.four

\* C19: a password is accepted exactly when it has at least 6 characters and at
\* most 72 UTF-8 bytes: 5 characters are rejected, 6 characters are accepted, and
\* 73 bytes are rejected also when the characters are fewer than 73.
C19_PasswordLength ==
    PasswordDone =>
        /\ call.out.accepted <=> (Characters >= 6 /\ Bytes <= 72)
        /\ Characters = 5 => ~call.out.accepted
        /\ (Characters = 6 /\ Bytes <= 72) => call.out.accepted
        /\ Bytes = 73 => ~call.out.accepted

\* eighteen four-byte characters and one one-byte character: 19 characters, 73 bytes
C19_Witness ==
    /\ PasswordDone
    /\ call.password = [one |-> 1, two |-> 0, three |-> 0, four |-> 18]
    /\ ~call.out.accepted


(***************************************************************************)
(* The verification scripts.  env says what each step of a script meets;   *)
(* the result of a script is its exit code and the set of checks that ran  *)
(* and failed (the script reported a failure for them).                    *)
(***************************************************************************)
StepOutcomes == {"ok", "raise"}

sys_exit(success) == IF success THEN 0 ELSE 1

\* test_database_connection.py: env is [connect, create, insert, query]
test_database_connection(env) ==
    IF env.connect = "raise" THEN [success |-> FALSE, failed |-> {"connection"}]
    ELSE IF env.create = "raise" THEN [success |-> FALSE, failed |-> {"tables"}]
    ELSE [success |-> TRUE,
          failed |-> (IF env.insert = "raise" THEN {"insert"} ELSE {})
                     \cup (IF env.query = "raise" THEN {"query"} ELSE {})]

database_check(env) ==
    Bind(test_database_connection(env), LAMBDA t :
         [exit |-> sys_exit(t.success), failed |-> t.failed])

\* test_connections.py: test_fastapi_app
test_fastapi_app(env) ==
    IF env.app_import = "raise" THEN [success |-> FALSE, failed |-> {"FastAPI App"}]
    ELSE [success |-> TRUE,
          failed |-> IF env.route_missing THEN {"expected route"} ELSE {}]

\* test_connections.py: test_api_endpoints
test_api_endpoints(env) ==
    IF env.app_import = "raise" THEN [success |-> FALSE, failed |-> {"API Endpoints"}]
    ELSE IF env.test_client = "raise" THEN [success |-> TRUE, failed |-> {}]
    ELSE [success |-> TRUE,
          failed |-> IF env.status_unexpected THEN {"HTTP status"} ELSE {}]

BasicTests == {"Imports", "Config", "Database", "Quran Service", "Cache Service"}

\* test_connections.py: main; env.basic gives what the first five tests return
self_check(env) ==
    Bind(test_fastapi_app(env), LAMBDA a :
    Bind(test_api_endpoints(env), LAMBDA e :
    Bind(Cardinality({t \in BasicTests : env.basic[t]})
         + (IF a.success THEN 1 ELSE 0) + (IF e.success THEN 1 ELSE 0), LAMBDA passed :
         [exit |-> sys_exit(passed = Cardinality(BasicTests) + 2),
          failed |-> {t \in BasicTests : ~env.basic[t]} \cup a.failed \cup e.failed])))

\* test_frontend_backend.py: test_backend_health
test_backend_health(env) == env.health = "200"

\* test_frontend_backend.py: main returns nothing and the script never calls
\* sys.exit, so the interpreter ends with code 0
live_check(env) ==
    IF test_backend_health(env)
    THEN [exit |-> 0, failed |-> IF env.root = "raise" THEN {"GET /"} ELSE {}]
    ELSE [exit |-> 0, failed |-> {"backend health"}]

InitScripts ==
    /\ call \in
          [fn : {"database_check"}, done : {FALSE}, out : {None},
           env : [connect : StepOutcomes, create : StepOutcomes, insert : StepOutcomes,
                  query : StepOutcomes]]
          \cup
          [fn : {"self_check"}, done : {FALSE}, out : {None},
           env : [basic : [BasicTests -> BOOLEAN], app_import : StepOutcomes,
                  route_missing : BOOLEAN, test_client : StepOutcomes,
                  status_unexpected : BOOLEAN]]
          \cup
          [fn : {"live_check"}, done : {FALSE}, out : {None},
           env : [health : {"200", "503", "connection error"}, root : StepOutcomes]]
    /\ redis_client = None
    /\ store = <<>>
    /\ history = <<>>
    /\ api_key = TRUE
    /\ explainer = None
    /\ engine = [constructed |-> FALSE, model |-> FALSE, index |-> None, metadata |-> None]
    /\ files = [json |-> TRUE, index |-> "old", metadata |-> "old", texts |-> "old"]
    /\ counts = [builds |-> 0, requests |-> 0]
    /\ first = <<>>
    /\ last = [op |-> "none"]

RunDatabaseCheck ==
    /\ call.fn = "database_check" /\ ~call.done
    /\ call' = [call EXCEPT !.done = TRUE, !.out = database_check(call.env)]
    /\ UNCHANGED SystemVars

RunSelfCheck ==
    /\ call.fn = "self_check" /\ ~call.done
    /\ call' = [call EXCEPT !.done = TRUE, !.out = self_check(call.env)]
    /\ UNCHANGED SystemVars

RunLiveCheck ==
    /\ call.fn = "live_check" /\ ~call.done
    /\ call' = [call EXCEPT !.done = TRUE, !.out = live_check(call.env)]
    /\ UNCHANGED SystemVars

NextScripts == RunDatabaseCheck \/ RunSelfCheck \/ RunLiveCheck

SpecScripts == InitScripts /\ [][NextScripts]_vars

ScriptDone == call.fn \in {"database_check", "self_check", "live_check"} /\ call.done

\* C20: each verification script exits with code 0 only if every check it ran
\* passed and with code 1 otherwise, so a failed check always gives a non-zero
\* exit.
C20_ExitCodeReflectsChecks ==
    ScriptDone =>
        /\ call.out.exit \in {0, 1}
        /\ call.out.exit = 0 <=> call.out.failed = {}


(***************************************************************************)
(* The API process: the startup hook, the endpoints that need no database  *)
(* (GET /health, GET /) and the sessions get_db hands to the endpoints     *)
(* that do.  call is the process:                                          *)
(*   phase       "starting", "serving", or "failed" when the startup hook  *)
(*               raised (the server then exits without serving)            *)
(*   create_all  what Base.metadata.create_all does in this run            *)
(*   log         the lines the startup hook printed                        *)
(*   opened      number of sessions SessionLocal() has made so far         *)
(*   req         for each request slot, its position (pc), the session it  *)
(*               was given (db) and how its handler ended (exit)           *)
(* A session is [id, open, closes].                                        *)
(***************************************************************************)
MaxSessions == 2     \* number of requests that use the database in one run

CreateAllOutcomes == {"ok", "OperationalError", "Exception"}

\* on_startup catching only OperationalError
on_startup_operational_only(create_all) ==
    CASE create_all = "ok" ->
            [exc |-> None, log |-> <<"Database connected and tables created">>]
      [] create_all = "OperationalError" ->
            [exc |-> None, log |-> <<"Database connection error",
                                     "Database not available. Some features may not work.">>]
      [] create_all = "Exception" -> [exc |-> "Exception", log |-> <<>>]

\* on_startup: the exception that leaves the hook (None when it returns) and
\* the lines it printed
on_startup(create_all) ==
    CASE create_all = "ok" ->
            [exc |-> None, log |-> <<"Database connected and tables created">>]
      [] create_all = "OperationalError" ->
            [exc |-> None, log |-> <<"Database connection error",
                                     "Database not available. Some features may not work.">>]
      [] create_all = "Exception" ->
            [exc |-> None, log |-> <<"Database setup error", "traceback">>]

health_check == Response200([status |-> "healthy", service |-> "atheist-ai-api"])

root == Response200([message |-> "Atheist AI API", docs |-> "/docs"])

\* how a handler that was given a session can end
HandlerExits == {"return", "early_return", "HTTP_500", "HTTP_401", "unhandled"}

SessionLocal(id) == [id |-> id, open |-> TRUE, closes |-> 0]

db_close(db) == [db EXCEPT !.open = FALSE, !.closes = @ + 1]

\* get_db closing the session only when the consumer returns
get_db_exit_no_finally(db, exit) ==
    IF exit \in {"return", "early_return"} THEN db_close(db) ELSE db

\* get_db after its yield: the framework resumes the generator when the handler
\* returned and throws the handler's exception into it otherwise; the finally
\* clause runs either way
get_db_exit(db, exit) == db_close(db)

NoSession == [id |-> 0, open |-> FALSE, closes |-> 0]

InitApp ==
    /\ call \in [phase : {"starting"}, create_all : CreateAllOutcomes, log : {<<>>},
                 opened : {0},
                 req : {[i \in 1..MaxSessions |->
                           [pc |-> "idle", db |-> NoSession, exit |-> None]]}]
    /\ redis_client = None
    /\ store = <<>>
    /\ history = <<>>
    /\ api_key = TRUE
    /\ explainer = None
    /\ engine = [constructed |-> FALSE, model |-> FALSE, index |-> None, metadata |-> None]
    /\ files = [json |-> TRUE, index |-> "old", metadata |-> "old", texts |-> "old"]
    /\ counts = [builds |-> 0, requests |-> 0]
    /\ first = <<>>
    /\ last = [op |-> "none"]

\* the server runs the startup hook; an exception that leaves it ends the process
Startup ==
    /\ call.phase = "starting"
    /\ \E h \in {on_startup(call.create_all)} :
          call' = [call EXCEPT !.phase = IF h.exc = None THEN "serving" ELSE "failed",
                               !.log = h.log]
    /\ last' = [op |-> "startup"]
    /\ UNCHANGED <<redis_client, store, history, api_key, explainer, engine, files,
                   counts, first>>

HealthRequest ==
    /\ call.phase = "serving"
    /\ last' = [op |-> "health", response |-> health_check]
    /\ UNCHANGED <<call, redis_client, store, history, api_key, explainer, engine,
                   files, counts, first>>

RootRequest ==
    /\ call.phase = "serving"
    /\ last' = [op |-> "root", response |-> root]
    /\ UNCHANGED <<call, redis_client, store, history, api_key, explainer, engine,
                   files, counts, first>>

\* a request to an endpoint with Depends(get_db): get_db runs up to its yield
OpenSession ==
    /\ call.phase = "serving"
    /\ \E i \in 1..MaxSessions :
          /\ call.req[i].pc = "idle"
          /\ call' = [call EXCEPT !.opened = @ + 1,
                                  !.req[i] = [pc |-> "handler",
                                              db |-> SessionLocal(call.opened + 1),
                                              exit |-> None]]
    /\ UNCHANGED SystemVars

\* the handler ends, by returning or by raising
HandlerExit ==
    /\ \E i \in 1..MaxSessions, exit \in HandlerExits :
          /\ call.req[i].pc = "handler"
          /\ call' = [call EXCEPT !.req[i].pc = "exiting", !.req[i].exit = exit]
    /\ UNCHANGED SystemVars

\* the framework finishes the get_db generator of the request
CloseSession ==
    /\ \E i \in 1..MaxSessions :
          /\ call.req[i].pc = "exiting"
          /\ call' = [call EXCEPT !.req[i].pc = "done",
                                  !.req[i].db = get_db_exit(call.req[i].db,
                                                            call.req[i].exit)]
    /\ UNCHANGED SystemVars

NextApp ==
    Startup \/ HealthRequest \/ RootRequest \/ OpenSession \/ HandlerExit \/ CloseSession

SpecApp == InitApp /\ [][NextApp]_vars

\* C21: whatever exception table creation raises in the startup hook, the hook
\* returns normally and the process serves: it never ends up failed, and the
\* health and root endpoints answer 200 once it has started.
C21_StartupNonFatal ==
    /\ call.phase # "failed"
    /\ last.op \in {"health", "root"} =>
          /\ call.phase = "serving"
          /\ last.response.status = 200

\* table creation failed with an exception other than OperationalError and the
\* health endpoint has answered
C21_Witness ==
    /\ call.create_all = "Exception" /\ call.phase = "serving"
    /\ call.log[1] = "Database setup error"
    /\ last.op = "health" /\ last.response.body.status = "healthy"

RequestEnded(i) == call.req[i].pc = "done"

\* C27: every session get_db opened is closed exactly once when the request
\* that got it has ended, however the handler ended (return, early return,
\* HTTP 500 or 401, any other exception); it is not closed before the handler
\* ends, and no two requests get the same session.
C27_SessionClosedOnEveryExit ==
    \A i \in 1..MaxSessions :
        /\ RequestEnded(i) =>
              /\ ~call.req[i].db.open
              /\ call.req[i].db.closes = 1
        /\ call.req[i].pc \in {"handler", "exiting"} =>
              /\ call.req[i].db.open
              /\ call.req[i].db.closes = 0
        /\ \A j \in 1..MaxSessions :
              (i # j /\ call.req[i].pc # "idle" /\ call.req[j].pc # "idle") =>
                  call.req[i].db.id # call.req[j].db.id

\* a request whose handler raised HTTP 500 has ended with its session closed,
\* while another request is still inside its handler with its own session open
C27_Witness ==
    \E i, j \in 1..MaxSessions :
        /\ RequestEnded(i) /\ call.req[i].exit = "HTTP_500"
        /\ call.req[i].db.closes = 1 /\ ~call.req[i].db.open
        /\ call.req[j].pc = "handler" /\ call.req[j].db.open


(***************************************************************************)
(* Searches that arrive together in one server process, step by step.      *)
(* The endpoints are coroutines (async def) whose bodies never await, so   *)
(* the event loop runs the handler of one request from its first line to   *)
(* its last before it starts another.  call is                             *)
(*   running   the request whose handler holds the event loop (0: none)    *)
(*   req       for each request its position (pc), its arguments, the      *)
(*             local variables index and metadata of search (the versions  *)
(*             of the objects they refer to), and what search returned     *)
(*             (out) or raised (exc)                                       *)
(* The positions follow search: "pending" (not started), "load_index"      *)
(* (before line 303), "load_metadata" (before line 304), "search" (before  *)
(* line 311), "done".                                                      *)
(***************************************************************************)
MaxConcurrent == 2   \* number of requests that arrive together

\* handlers run on worker threads, which the scheduler may switch at any step
may_run_threaded(running, i) == TRUE

\* may request i take a step, given the request that holds the event loop?
may_run(running, i) == running \in {0, i}

PendingRequest ==
    [pc |-> "pending", query |-> <<>>, k |-> 0, index |-> None, metadata |-> None,
     out |-> <<>>, exc |-> None]

InitColdStart ==
    /\ call = [running |-> 0, req |-> [i \in 1..MaxConcurrent |-> PendingRequest]]
    /\ redis_client = None
    /\ store = <<>>
    /\ history = <<>>
    /\ api_key = TRUE
    /\ explainer = None
    /\ engine = [constructed |-> FALSE, model |-> FALSE, index |-> None, metadata |-> None]
    /\ files \in ArtifactFiles
    /\ counts = [builds |-> 0, requests |-> 0]
    /\ first = <<>>
    /\ last = [op |-> "none"]

\* the shared state a step leaves
Shared(r) ==
    /\ engine' = r.engine
    /\ files' = r.files
    /\ counts' = [counts EXCEPT !.builds = r.builds]
    /\ UNCHANGED <<redis_client, store, history, api_key, explainer, first, last>>

\* the end of a handler: the request is done and the event loop is free
Finish(i, index, metadata, out, exc) ==
    call' = [call EXCEPT !.running = 0,
                         !.req[i] = [@ EXCEPT !.pc = "done", !.index = index,
                                              !.metadata = metadata,
                                              !.out = out, !.exc = exc]]

\* lines 298-302: the blank-query test, then _load_model
BeginSearch ==
    \E i \in 1..MaxConcurrent, query \in {<<"f">>, <<" ">>}, k \in {2, MaxK} :
        /\ call.req[i].pc = "pending"
        /\ may_run(call.running, i)
        /\ IF IsBlank(query)
           THEN /\ call' = [call EXCEPT !.req[i] = [@ EXCEPT !.pc = "done",
                                                            !.query = query, !.k = k]]
                /\ Shared(QuranService_retrieval(ServiceState))
           ELSE /\ call' = [call EXCEPT !.running = i,
                                        !.req[i] = [@ EXCEPT !.pc = "load_index",
                                                             !.query = query, !.k = k]]
                /\ Shared(_load_model(QuranService_retrieval(ServiceState)))

\* line 303: index = self._load_index()
LoadIndex ==
    \E i \in 1..MaxConcurrent :
        /\ call.req[i].pc = "load_index"
        /\ may_run(call.running, i)
        /\ \E r \in {_load_index(ServiceState)} :
              /\ Shared(r)
              /\ IF r.exc # None
                 THEN Finish(i, None, None, <<>>, r.exc)
                 ELSE call' = [call EXCEPT !.req[i].pc = "load_metadata",
                                           !.req[i].index = r.engine.index]

\* line 304: metadata = self._load_metadata()
LoadMetadata ==
    \E i \in 1..MaxConcurrent :
        /\ call.req[i].pc = "load_metadata"
        /\ may_run(call.running, i)
        /\ \E r \in {_load_metadata(ServiceState)} :
              /\ Shared(r)
              /\ IF r.exc # None
                 THEN Finish(i, call.req[i].index, None, <<>>, r.exc)
                 ELSE call' = [call EXCEPT !.req[i].pc = "search",
                                           !.req[i].metadata = r.engine.metadata]

\* lines 306-335: index.search on the local index, the hits mapped through the
\* local metadata
SearchIndex ==
    \E i \in 1..MaxConcurrent :
        /\ call.req[i].pc = "search"
        /\ may_run(call.running, i)
        /\ Finish(i, call.req[i].index, call.req[i].metadata,
                  search_hits(index_search(call.req[i].index, call.req[i].query,
                                           call.req[i].k),
                              MetadataOf(call.req[i].metadata), NoFloat, TRUE),
                  None)
        /\ UNCHANGED SystemVars

NextColdStart == BeginSearch \/ LoadIndex \/ LoadMetadata \/ SearchIndex

SpecColdStart == InitColdStart /\ [][NextColdStart]_vars

InFlight(i) == call.req[i].pc \in {"load_index", "load_metadata", "search"}

Loaded == engine.index # None /\ engine.metadata # None

\* the build_index calls so far: those that wrote the artifacts and those that
\* raised for a missing corpus file (each ended the search that made it)
BuildRuns ==
    counts.builds
    + Cardinality({i \in 1..MaxConcurrent : call.req[i].exc = JSON_NOT_FOUND})

\* C22 as stated: in a process, also when requests arrive together before the
\* first access, build_index runs at most once; it never runs while another
\* request is between loading the index and reading it; and once the in-memory
\* index and metadata are both loaded no step replaces or resets them.
C22_BuildRunsAtMostOnce ==
    /\ [](BuildRuns <= 1)
    /\ [][\A i \in 1..MaxConcurrent :
             (InFlight(i) /\ call'.req[i] = call.req[i]) =>
                 counts'.builds = counts.builds]_vars
    /\ [][Loaded => (engine'.index = engine.index /\ engine'.metadata = engine.metadata
                     /\ files' = files)]_vars

\* C22 (amended): in a process, also when requests arrive together before the
\* first access, build_index writes the artifacts at most once (a call that
\* raises for a missing corpus file writes nothing and is made again by the
\* next search); no build runs while another request is between loading the
\* index and reading it; and once the in-memory index and metadata are both
\* loaded no step replaces or resets them.
C22_BuildOnlyAtBootstrap ==
    /\ [](counts.builds <= 1)
    /\ [](\A i \in 1..MaxConcurrent :
             call.req[i].exc = JSON_NOT_FOUND => (counts.builds = 0 /\ ~Loaded))
    /\ [][\A i \in 1..MaxConcurrent :
             (InFlight(i) /\ call'.req[i] = call.req[i]) =>
                 counts'.builds = counts.builds]_vars
    /\ [][Loaded => (engine'.index = engine.index /\ engine'.metadata = engine.metadata
                     /\ files' = files)]_vars

\* the artifacts were absent, the requests that arrived together have all been
\* answered with hits, and one build has run
C22_Witness ==
    /\ counts.builds = 1 /\ files.index = "new" /\ Loaded
    /\ \A i \in 1..MaxConcurrent :
          call.req[i].pc = "done" /\ call.req[i].exc = None /\ Len(call.req[i].out) = 2

SearchAnswered(i) ==
    call.req[i].pc = "done" /\ call.req[i].exc = None /\ ~IsBlank(call.req[i].query)

\* C24: a build leaves the index, metadata and texts files of one and the same
\* build; in every search the index that is queried and the metadata its hits
\* are mapped through come from the same build, also when only one of the two
\* files was absent at first access; and the results are at most k verses of
\* that metadata.
C24_ArtifactsAligned ==
    /\ counts.builds > 0 =>
          files.index = "new" /\ files.metadata = "new" /\ files.texts = "new"
    /\ \A i \in 1..MaxConcurrent :
          SearchAnswered(i) =>
              /\ call.req[i].index = call.req[i].metadata
              /\ Len(call.req[i].out) <= call.req[i].k
              /\ \A n \in DOMAIN call.req[i].out :
                    \E m \in DOMAIN MetadataOf(call.req[i].metadata) :
                        \A f \in DOMAIN MetadataOf(call.req[i].metadata)[m] :
                            call.req[i].out[n][f] = MetadataOf(call.req[i].metadata)[m][f]


(***************************************************************************)
(* More properties of the engine and the service (under SpecService).      *)
(***************************************************************************)
UsesEngine == call.fn \in {"search", "retrieve_citation_bundle", "answer_query"}

\* was a resource that the call had to load missing its file?
ArtifactMissing ==
    \/ call.before.engine.index = None /\ call.before.files.index = None
    \/ call.before.engine.metadata = None /\ call.before.files.metadata = None

\* C23: a non-blank search with the corpus file present never fails for a
\* missing artifact.  If the file of a resource it has to load is absent,
\* build_index runs once, writes the index, metadata and texts files, and the
\* resource is then loaded from the file just built; if the files exist no
\* build runs and the files are left as they were.
C23_RebuildOnMissingArtifact ==
    (UsesEngine /\ ~BlankQuery(call.args.query) /\ call.before.files.json) =>
        /\ call.exc \in {None, NO_API_KEY}
        /\ call.fn # "answer_query" => call.exc = None
        /\ IF ArtifactMissing
           THEN /\ counts.builds = call.before.builds + 1
                /\ files.index = "new" /\ files.metadata = "new" /\ files.texts = "new"
                /\ call.before.files.index = None => engine.index = "new"
                /\ call.before.files.metadata = None => engine.metadata = "new"
           ELSE /\ counts.builds = call.before.builds
                /\ files = call.before.files

\* the first search of a process that found the index file but no metadata
\* file: the build ran and the search returned hits
C23_Witness ==
    /\ call.fn = "search" /\ call.args.query = <<"f">> /\ call.exc = None
    /\ call.before.files.index = "old" /\ call.before.files.metadata = None
    /\ call.before.engine.metadata = None
    /\ counts.builds = 1 /\ files.metadata = "new" /\ engine.metadata = "new"
    /\ Len(call.out) >= 1

\* C25: neither the engine nor the explainer exists when the process starts;
\* a call that needs the engine leaves it constructed, an access to the
\* explainer with the key configured leaves the explainer constructed; and an
\* instance, once constructed, is the one every later access gets: the engine
\* keeps the model it has loaded and the explainer is never replaced.
C25_LazySingletons ==
    /\ [](counts.requests = 0 => (~engine.constructed /\ explainer = None))
    /\ [](UsesEngine => engine.constructed)
    /\ []((call.fn = "explainer" /\ api_key) => explainer = "explainer")
    /\ []((~UsesEngine /\ call.fn # "none") => engine = call.before.engine)
    /\ [][/\ engine.constructed => (engine'.constructed /\ (engine.model => engine'.model))
          /\ explainer # None => explainer' = explainer]_vars

\* the second call on an engine the first call constructed and loaded, with the
\* explainer constructed as well
C25_Witness ==
    /\ UsesEngine /\ call.before.engine.constructed /\ call.before.engine.model
    /\ engine.model /\ call.before.explainer = "explainer" /\ explainer = "explainer"


(***************************************************************************)
(* More properties of the query endpoints (checked under Spec).            *)
(***************************************************************************)
LLMFailed ==
    last.result # <<>> /\ last.result[1].answer = ERROR_PREFIX \o "Connection error."

\* C26: one submit-query request makes at most one cache get, one retrieval,
\* one language-model call, one cache set and one history commit; a step that
\* failed was made once and not again.
C26_NoRetries ==
    last.op = "query" =>
        /\ last.cache_gets <= 1 /\ last.retrievals <= 1 /\ last.llm_calls <= 1
        /\ last.cache_sets <= 1 /\ last.commits <= 1
        /\ last.get = "raise" => last.cache_gets = 1
        /\ LLMFailed => last.llm_calls = 1
        /\ last.set = "raise" => last.cache_sets = 1
        /\ last.failure = DB_ERROR => last.commits = 1
        /\ (last.path = "miss" /\ last.failure \in {JSON_NOT_FOUND, NO_API_KEY}) =>
              (last.retrievals = 1 /\ last.llm_calls = 0 /\ last.cache_sets = 0
               /\ last.commits = 0)

\* a request in which the cache get, the language-model call, the cache set
\* and the commit all failed, each made once
C26_Witness ==
    /\ last.op = "query" /\ last.get = "raise" /\ LLMFailed /\ last.set = "raise"
    /\ last.failure = DB_ERROR
    /\ last.cache_gets = 1 /\ last.retrievals = 1 /\ last.llm_calls = 1
    /\ last.cache_sets = 1 /\ last.commits = 1

\* the entry the cache holds for the tuple of the last request
LastEntry == store[LastKey].json

\* the last request found an entry for its tuple and its cache get worked
RepeatWithinTTL == last.op = "query" /\ last.had_entry /\ last.get = "ok"

\* C28: the cache write precedes the history write.  A request of an
\* authenticated caller whose commit fails answers 500 and adds no row, but its
\* result is in the cache when the cache write worked; a repeat of the query
\* while the entry is there is served from it with a 200 response that carries
\* that result, and adds no row either.
C28_CachedDespiteFailedCommit ==
    /\ (last.op = "query" /\ last.failure = DB_ERROR) =>
          /\ last.req.user # NoUser
          /\ last.response.status = 500 /\ last.rows_added = 0
          /\ last.cache_sets = 1 /\ last.result # <<>>
          /\ redis_client # None => last.set \in {"ok", "raise"}
          /\ last.set = "ok" =>
                (LastKey \in DOMAIN store /\ LastEntry = last.result[1])
    /\ (RepeatWithinTTL /\ LastKey \in DOMAIN first /\ first[LastKey].status = 500) =>
          /\ last.path = "hit" /\ last.response.status = 200
          /\ last.response.body.answer = LastEntry.answer
          /\ last.retrievals = 0 /\ last.rows_added = 0

\* a repeat served from the entry a request with a failed commit left; the
\* history table is still empty
C28_Witness ==
    /\ RepeatWithinTTL /\ LastKey \in DOMAIN first /\ first[LastKey].status = 500
    /\ last.path = "hit" /\ last.response.status = 200 /\ last.req.user # NoUser
    /\ history = <<>>

\* C29: a failed language-model call on the miss path gives the answer
\* "Error generating explanation: ..." with has_answer true, in a 200 response
\* unless the commit fails; the result is stored in the cache like any other,
\* and while the entry is there every identical query gets it from the cache,
\* with no language-model call.
C29_FailedCallIsCached ==
    /\ (last.op = "query" /\ LLMFailed) =>
          /\ last.result[1].has_answer
          /\ last.failure = None =>
                /\ last.response.status = 200
                /\ last.response.body.answer = ERROR_PREFIX \o "Connection error."
                /\ last.response.body.has_answer
          /\ last.set = "ok" =>
                (LastKey \in DOMAIN store /\ LastEntry = last.result[1])
    /\ (RepeatWithinTTL /\ LastEntry.answer = ERROR_PREFIX \o "Connection error.") =>
          /\ last.path = "hit" /\ last.llm_calls = 0 /\ last.retrievals = 0
          /\ last.response.status = 200
          /\ last.response.body.answer = ERROR_PREFIX \o "Connection error."
          /\ last.response.body.has_answer

\* the placeholder of a failed call served from the cache to a repeat
C29_Witness ==
    /\ RepeatWithinTTL /\ last.path = "hit" /\ last.llm_calls = 0
    /\ last.response.status = 200
    /\ last.response.body.answer = ERROR_PREFIX \o "Connection error."
    /\ last.response.body.has_answer

\* the failure a request meets in a process without an API key: the retrieval
\* comes first, so a non-blank query with neither artifacts nor corpus fails in
\* the retrieval; every other request fails at the explainer
FailureWithoutKey ==
    IF ~files.json /\ ~IsBlank(last.req.query) THEN JSON_NOT_FOUND ELSE NO_API_KEY

\* C30: with no API key configured every submit-query request misses the cache
\* (unless the cache server hands it an entry of foreign make), runs the
\* retrieval (loading the index, after building it when the artifacts are
\* absent) and then fails: HTTP 500 with the configuration error,
\* nothing cached, no history row, no language-model call and no explainer;
\* also for a blank query and for a query none of whose hits reaches the
\* threshold.
C30_ExplainerAccessedForEveryQuery ==
    (last.op = "query" /\ ~api_key /\ last.get # "missing_field") =>
        /\ last.path = "miss" /\ last.retrievals = 1 /\ last.llm_calls = 0
        /\ last.failure = FailureWithoutKey
        /\ last.response.status = 500
        /\ last.response.detail = "Error processing query: " \o FailureWithoutKey
        /\ last.cache_sets = 0 /\ last.commits = 0 /\ last.rows_added = 0
        /\ store = <<>> /\ history = <<>>
        /\ explainer = None /\ engine.constructed
        /\ (files.json /\ ~IsBlank(last.req.query)) =>
              /\ files.index # None /\ engine.index = files.index
              /\ engine.metadata = files.metadata

\* without a key, a request built the absent index and failed, and then a blank
\* query of an authenticated caller failed with the configuration error too
C30_Witness ==
    /\ last.op = "query" /\ ~api_key /\ counts.builds = 1
    /\ IsBlank(last.req.query) /\ last.req.user # NoUser
    /\ last.response.status = 500 /\ last.failure = NO_API_KEY
    /\ store = <<>> /\ history = <<>>

====
